---- MODULE Spec2Model ----
(***************************************************************************)
(* Model of frida-ios-dump-ng's bundle transfer subsystem.                 *)
(*                                                                         *)
(*   Spec          BundleDownloader (cli.py) driving enumerate_bundle_files*)
(*                 / pull_bundle_via_frida (transfer.py) over the RPC      *)
(*                 transport, with the fallback handler, the switch to a   *)
(*                 stable process and the SSH path.                        *)
(*   SpecProgress  ProgressBar (progress.py) called from several threads.  *)
(*   SpecEnumerate enumerate_bundle_files (transfer.py): listing, batched  *)
(*                 stat with per-path fallback, and the selection of the   *)
(*                 files to transfer.                                      *)
(*   SpecPull      pull_file_via_frida (transfer.py): the chunked copy of  *)
(*                 one file.                                               *)
(*   SpecTree      the local file system effects of a tree download        *)
(*                 (pull_bundle_via_frida, SshClient.download_dir), run    *)
(*                 once and again into the same directory.                 *)
(*   SpecSshClient SshClient (ssh.py): connect, the lazily opened SFTP     *)
(*                 channel and close, called from several threads.         *)
(*   SpecTunnel    SshTunnel (ssh.py): start, stop, the accept loops and   *)
(*                 the handler threads.                                    *)
(*   SpecTunnelLive  SpecTunnel with every tunnel thread scheduled fairly. *)
(*   SpecPullLive  SpecPull with the copy loop scheduled fairly.           *)
(*   SpecWalk      SshClient.walk (ssh.py): the recursive remote listing.  *)
(*   SpecForward   SshTunnel._handle_client (ssh.py): the forwarding loop  *)
(*                 of one accepted connection.                             *)
(*   SpecRetry     BundleDownloader (cli.py) under transport losses        *)
(*                 without a bound; SpecRetryLive schedules it fairly.     *)
(*   SpecBundle    the byte counter of one bundle download (cli.py,        *)
(*                 progress.py, transfer.py).                              *)
(*   SpecAttach    FridaDumper.attach (dumper.py) and its retry loop.      *)
(***************************************************************************)
EXTENDS Integers, Sequences, FiniteSets, TLC

(* ----------------------------- bounds --------------------------------- *)
\* number of files the remote listing returns (list order 1..NFiles)
NFiles == 2
\* largest --workers value tried
MaxWorkers == 2
\* how many times the environment may kill the RPC session in one run
MaxLoss == 2

\* threads calling one ProgressBar
NThreads == 2
\* ProgressBar calls made in one run, by all threads together
MaxOps == 4
\* clock ticks in one run, and the length of one tick in ms
MaxTicks == 2
TickMs == 60

\* longest file list a remote listing returns, largest batch_stat_size
MaxList == 3
MaxBatch == 2

\* largest file size and largest chunk_size of a single-file copy, in bytes
MaxSize == 3
MaxChunk == 2

\* most bytes a read may return beyond what was asked
MaxExtra == 1

\* deepest directory nesting of a walked remote tree
WalkDepth == 2

\* bytes each peer of a forwarding session sends
MaxStream == 2

\* ssh.py:208  BUFFER_SIZE = 8192, scaled to the streams above
BUFFER_SIZE == 2

\* largest value of the retries argument of attach
MaxRetries == 2

\* runs of the same tree download into one local directory
MaxRuns == 2

\* SshClient calls made in one run, by all threads together
MaxCalls == 5

\* connections made to one SshTunnel, and its start() calls
MaxConns == 2
MaxStarts == 2

Files == 1..NFiles
Threads == 1..NThreads

(* ---------------------------- variables ------------------------------- *)
VARIABLES
  \* --- inputs of one BundleDownloader invocation
  op,          \* "bundle" (download_bundle) or "sandbox" (download_sandbox)
  entry,       \* the method the invocation enters by
  ssh,         \* ctx.ssh is set
  max_workers, \* config.max_workers
  dump_size,   \* size the RPC stat reports for the decrypted dump file
  \* --- control
  pc,          \* position of the main thread
  guarded,     \* TRUE while inside a try block with the frida except clause
  outcome,     \* how the invocation ended ("" while running)
  \* --- FridaDumper
  dead,        \* the RPC session of the current attachment is lost
  losses,      \* transport losses so far
  attached,    \* dumper._session is set
  pid,         \* dumper._pid (0 = None)
  \* --- manifests and transfers
  rpc_sizes,   \* size manifest built by RPC enumeration (keys of `sizes`)
  st,          \* per file: state of its unit in the current scheduler call
  pull_result, \* value pull_bundle_via_frida returned to its caller
  walked,      \* SshClient.walk ran since the SSH path was entered
  ssh_files,   \* manifest built by SshClient.walk
  ssh_done,    \* manifest entries <<origin, file>> transferred over SSH
  \* --- switch to a transfer process
  procs,       \* candidate names in the last enumerate_processes result
  target,      \* candidate name selected by the current switch ("" = none)
  prev_pid,    \* dumper.pid when the current switch selected its candidate
  switch_log,  \* device calls issued by the current switch, in order
  \* --- history
  late_start,  \* a unit started after a transfer of this call lost transport
  handled,     \* times a frida except clause was entered
  switches     \* successful switches

dlVars == <<op, entry, ssh, max_workers, dump_size, pc, guarded, outcome,
            dead, losses, attached, pid, rpc_sizes, st, pull_result, walked,
            ssh_files, ssh_done, procs, target, prev_pid, switch_log,
            late_start, handled, switches>>

VARIABLES
  \* --- ProgressBar fields
  pb_total,       \* self.total (NoTotal = None)
  pb_current,     \* self.current
  pb_enabled,     \* self._enabled: stdout is a terminal
  pb_last_render, \* self._last_render, in ms
  pb_start_time,  \* self._start_time, in ms
  pb_lock,        \* thread holding self._lock (0 = free)
  \* --- its callers and its surroundings
  pb_pc,          \* per thread: position inside update()
  pb_delta,       \* per thread: delta of the update() in progress
  pb_read,        \* per thread: value of self.current the += has loaded
  pb_ops,         \* calls made so far, by all threads together
  pb_now,         \* time.time(), in ms
  pb_frames,      \* frames written to stdout
  pb_newlines,    \* line terminators written to stdout
  pb_eta,         \* ETA of the last frame written, in ms (NoEta = none)
  \* --- history
  pb_expected,    \* sum of the positive deltas passed to update()
  pb_last         \* the ProgressBar method the last step belonged to

pbVars == <<pb_total, pb_current, pb_enabled, pb_last_render, pb_start_time,
            pb_lock, pb_pc, pb_delta, pb_read, pb_ops, pb_now, pb_frames,
            pb_newlines, pb_eta, pb_expected, pb_last>>

VARIABLES
  \* --- inputs of one enumerate_bundle_files call
  en_files,       \* listing["files"], in listing order
  en_batch_size,  \* config.batch_stat_size
  en_stat,        \* what the device answers to a stat of each path
  \* --- its locals
  en_pc,          \* position in the function
  en_i,           \* first list position of the current batch
  en_k,           \* list position the current loop is at
  en_sizes,       \* sizes: relative path -> size
  en_total,       \* total
  \* --- what it returned and what the tree download selected from it
  en_ret_files,   \* the file list returned
  en_pull,        \* valid_files of pull_bundle_via_frida
  \* --- history
  en_lists,       \* list_files calls made
  en_batches,     \* stat_paths calls made: <<first, last>> list position
  en_failed,      \* first positions of the batches whose try block raised
  en_call_raised, \* first positions of the batches whose call raised
  en_single       \* list positions stat'd by a stat_path call

enVars == <<en_files, en_batch_size, en_stat, en_pc, en_i, en_k, en_sizes,
            en_total, en_ret_files, en_pull, en_lists, en_batches, en_failed,
            en_call_raised, en_single>>

VARIABLES
  \* --- inputs of one pull_file_via_frida call
  pf_caller,      \* who calls: "direct" (size=None), "tree", "dump"
  pf_kind,        \* what the remote path is: "file", "dir", "missing"
  pf_stat_size,   \* size a stat of the remote path reports
  pf_chunk,       \* chunk_size
  pf_transport,   \* "exact": reads return what was asked; else "lossy"
  \* --- its locals
  pf_pc,          \* position in the function
  pf_size,        \* size (NoSize = None)
  pf_offset,      \* offset
  \* --- effects
  pf_local,       \* the local file has been opened for writing
  pf_written,     \* bytes written to the local file
  pf_reads,       \* read_file calls that returned:
                  \*   <<offset, size asked, bytes returned>>
  pf_progress,    \* deltas passed to progress.update, in order
  pf_error        \* the exception that left the function ("" = none)

pfVars == <<pf_caller, pf_kind, pf_stat_size, pf_chunk, pf_transport, pf_pc,
            pf_size, pf_offset, pf_local, pf_written, pf_reads, pf_progress,
            pf_error>>

\* ---- local effects of a tree download (pull_bundle_via_frida, ----
\* ---- SshClient.download_dir) ----
VARIABLES
  tr_transport,   \* "frida" (pull_bundle_via_frida) or "ssh" (download_dir)
  tr_dirs,        \* dirs argument: list of relative directory paths
  tr_files,       \* files argument: the relative file paths passed
  tr_sizes,       \* paths that have an entry in the sizes argument
  tr_workers,     \* config.max_workers
  tr_pc,          \* position of the tree download
  tr_i,           \* index into sorted(dirs, key=len)
  tr_made,        \* manifest directories made in this run, in order
  tr_st,          \* per file: "none", "queued", "active", "ok", "failed"
  tr_ldirs,       \* directories that exist under the local destination
  tr_lfiles,      \* per file path: local contents (Absent = no such file)
  tr_failed,      \* some transport call has failed
  tr_run,         \* number of the current run into the same destination
  tr_first        \* the local tree when the first run returned

trVars == <<tr_transport, tr_dirs, tr_files, tr_sizes, tr_workers, tr_pc,
            tr_i, tr_made, tr_st, tr_ldirs, tr_lfiles, tr_failed, tr_run,
            tr_first>>

\* ---- one SshClient used by several threads (ssh.py) ----
VARIABLES
  sc_client,      \* self._client: 0 = None, else the id of the connection
  sc_sftp,        \* self._sftp: 0 = None, else the id of the SFTP channel
  sc_lock,        \* self._lock: 0 = free, else the holding thread
  sc_pc,          \* per thread: position inside connect / sftp / close
  sc_res,         \* per thread: how its last call ended
  sc_got,         \* per thread: the channel its last sftp access returned
  sc_ops,         \* calls begun so far, by all threads together
  sc_conns,       \* connections made so far (ids 1..sc_conns)
  sc_chans,       \* channels opened so far (ids 1..sc_chans)
  sc_open_calls,  \* open_sftp calls since the last close()
  sc_open_errs,   \* open_sftp calls since the last close() that raised
  sc_opened,      \* channels opened since the last close()
  sc_ret,         \* channels returned to callers since the last close()
  sc_chan_closed, \* channels on which close() was called
  sc_conn_closed, \* connections on which close() was called
  sc_close_raised \* some close() of a channel or connection raised

scVars == <<sc_client, sc_sftp, sc_lock, sc_pc, sc_res, sc_got, sc_ops,
            sc_conns, sc_chans, sc_open_calls, sc_open_errs, sc_opened,
            sc_ret, sc_chan_closed, sc_conn_closed, sc_close_raised>>

\* ---- one SshTunnel with its accept loops and handlers (ssh.py) ----
VARIABLES
  tn_server,      \* self._server: 0 = None, else the id of the socket
  tn_stop_event,  \* self._stop_event is set
  tn_starts,      \* start() calls so far (server ids 1..tn_starts)
  al_pc,          \* per start(): position of its _accept_loop thread
  al_srv,         \* per accept loop: the socket its accept() waits on
  al_stopped,     \* per running accept loop: stop() was called since
  h_pc,           \* per connection: position of it / of its handler
  h_srv,          \* per waiting connection: the socket it connected to
  h_stopped,      \* per running handler: stop() was called since
  h_chan          \* per running handler: its channel (0 = none)

tnVars == <<tn_server, tn_stop_event, tn_starts, al_pc, al_srv, al_stopped,
            h_pc, h_srv, h_stopped, h_chan>>

\* ---- one SshClient.walk call over a remote directory (ssh.py) ----
VARIABLES
  wk_rdirs,       \* the remote tree: its directories, relative to the root
  wk_rfiles,      \* the remote tree: its files
  wk_bad,         \* directories whose listdir_attr raises IOError
  wk_stack,       \* the _walk_sftp calls in progress, innermost last:
                  \*   [dir: rel_base, todo: entries left, listed: BOOLEAN]
  wk_files,       \* files: rel_path of each tuple, in order
  wk_dirs,        \* dirs, in order
  wk_pc           \* "walking", "returned"

wkVars == <<wk_rdirs, wk_rfiles, wk_bad, wk_stack, wk_files, wk_dirs, wk_pc>>

\* ---- one forwarding session of SshTunnel._handle_client (ssh.py) ----
VARIABLES
  fw_buf,         \* per side: bytes that arrived and were not yet received
  fw_sent_by,     \* per side: bytes its peer has put on the wire so far
  fw_eof,         \* per side: the peer has closed its end
  fw_stop,        \* self._stop_event
  fw_pc,          \* "check", "select", "client", "client_send", "chan",
                  \* "chan_send", "done"
  fw_rlist,       \* rlist of the last select
  fw_data,        \* data of the last recv
  fw_recv,        \* per side: bytes received from it, in order
  fw_out,         \* per side: bytes sent to it (sendall), in order
  fw_served,      \* sides received from in the present turn of the loop
  fw_end          \* how the session ended: "", "eof", "stop", "error"

fwVars == <<fw_buf, fw_sent_by, fw_eof, fw_stop, fw_pc, fw_rlist, fw_data,
            fw_recv, fw_out, fw_served, fw_end>>

\* ---- download_bundle over RPC when the transport is lost again and ----
\* ---- again (cli.py) ----
VARIABLES
  rt_pc,          \* "enum" (an RPC attempt), "handle", "sw_enum",
                  \* "sw_attach", "exit"
  rt_pid,         \* dumper.pid
  rt_procs,       \* candidate names in the last enumerate_processes result
  rt_target,      \* candidate selected by the switch in progress
  rt_outcome      \* "" while running, "success", "failed", "attach_error"

rtVars == <<rt_pc, rt_pid, rt_procs, rt_target, rt_outcome>>

\* ---- the progress counter of one RPC bundle download (cli.py, ----
\* ---- transfer.py) ----
VARIABLES
  \* --- what the enumeration and the stat of the dump file returned
  bd_size,        \* sizes: manifest size of each valid file (the remote is
                  \* static: it is the size of the file)
  bd_recount,     \* files the enumeration added to total a second time
  bd_dump_kind,   \* the dump path is a "file" or a "dir"
  bd_dump_size,   \* dump_size: size in the stat of the dump path
  bd_chunk,       \* config.chunk_size
  bd_workers,     \* config.max_workers
  \* --- the tracker
  bd_total,       \* ProgressBar.total
  bd_current,     \* ProgressBar.current
  \* --- the transfers
  bd_pc,          \* "tree", "dump", "finished", "aborted"
  bd_st,          \* per file: "queued", "active", "ok", "failed"
  bd_off,         \* per file: offset of its copy
  bd_dump_off     \* offset of the copy of the dump file

bdVars == <<bd_size, bd_recount, bd_dump_kind, bd_dump_size, bd_chunk,
            bd_workers, bd_total, bd_current, bd_pc, bd_st, bd_off,
            bd_dump_off>>

\* ---- one FridaDumper.attach call (dumper.py) ----
VARIABLES
  at_retries,     \* retries
  at_timeout,     \* a timeout was given
  at_target,      \* pid, the process to attach to
  at_old_pid,     \* self._pid when the call began (0 = None)
  at_pc,          \* "loop", "attach", "load", "after_loop", "record",
                  \* "returned", "raised"
  at_attempt,     \* attempt
  at_session,     \* self._session: 0 = None, else the PID it is attached to
  at_agent,       \* the agent script is loaded in self._session
  at_pid,         \* self._pid (0 = None)
  at_last_error,  \* last_error: <<attempt, kind>>, <<>> = None
  at_errors,      \* the errors the attempts ended with, in order
  at_raised       \* the exception that left the call (<<>> = none)

atVars == <<at_retries, at_timeout, at_target, at_old_pid, at_pc, at_attempt,
            at_session, at_agent, at_pid, at_last_error, at_errors,
            at_raised>>

\* everything but the download's own state
nonDownloadVars == <<pbVars, enVars, pfVars, trVars, scVars, tnVars, wkVars,
                     fwVars, rtVars, bdVars, atVars>>

\* everything but the progress bar's own state
nonProgressVars == <<dlVars, enVars, pfVars, trVars, scVars, tnVars, wkVars,
                     fwVars, rtVars, bdVars, atVars>>

\* everything but the enumeration's own state
nonEnumerateVars == <<dlVars, pbVars, pfVars, trVars, scVars, tnVars, wkVars,
                      fwVars, rtVars, bdVars, atVars>>

\* everything but the single-file copy's own state
nonPullVars == <<dlVars, pbVars, enVars, trVars, scVars, tnVars, wkVars,
                 fwVars, rtVars, bdVars, atVars>>

\* everything but one tree download, run again into the same local directory
nonTreeVars == <<dlVars, pbVars, enVars, pfVars, scVars, tnVars, wkVars,
                 fwVars, rtVars, bdVars, atVars>>

\* everything but one SshClient called from several threads
nonSshClientVars == <<dlVars, pbVars, enVars, pfVars, trVars, tnVars, wkVars,
                      fwVars, rtVars, bdVars, atVars>>

\* everything but one SshTunnel, its accept loops and its handlers
nonTunnelVars == <<dlVars, pbVars, enVars, pfVars, trVars, scVars, wkVars,
                   fwVars, rtVars, bdVars, atVars>>

\* everything but one SshClient.walk call over a remote tree
nonWalkVars == <<dlVars, pbVars, enVars, pfVars, trVars, scVars, tnVars,
                 fwVars, rtVars, bdVars, atVars>>

\* everything but one forwarding session of the tunnel
nonForwardVars == <<dlVars, pbVars, enVars, pfVars, trVars, scVars, tnVars,
                    wkVars, rtVars, bdVars, atVars>>

\* everything but download_bundle over RPC with the transport lost again
\* and again
nonRetryVars == <<dlVars, pbVars, enVars, pfVars, trVars, scVars, tnVars,
                  wkVars, fwVars, bdVars, atVars>>

\* everything but the progress counter of one RPC bundle download
nonBundleVars == <<dlVars, pbVars, enVars, pfVars, trVars, scVars, tnVars,
                   wkVars, fwVars, rtVars, atVars>>

\* everything but one FridaDumper.attach call
nonAttachVars == <<dlVars, pbVars, enVars, pfVars, trVars, scVars, tnVars,
                   wkVars, fwVars, rtVars, bdVars>>

vars == <<dlVars, pbVars, enVars, pfVars, trVars, scVars, tnVars, wkVars,
          fwVars, rtVars, bdVars, atVars>>

(* ------------------------ program constants --------------------------- *)
\* cli.py:403, in the order the loop tries them
candidates == <<"SpringBoard", "backboardd", "launchd", "installd">>

CandidateNames == {candidates[i] : i \in 1..Len(candidates)}

\* PID of each candidate process on the device.  The four are system
\* singletons, so a process list holds each name at most once.
PidOf == [n \in CandidateNames |->
            CASE n = "SpringBoard" -> 2
              [] n = "backboardd"  -> 3
              [] n = "launchd"     -> 4
              [] OTHER             -> 5]

\* PIDs the dumper may be attached to when the download starts: the app, or
\* (with --pid) a system process such as SpringBoard.
InitialPids == {1, 2}

NoUnits == [f \in Files |-> "none"]

(* ----------------------------- helpers -------------------------------- *)
\* transfer.py:147  valid_files = [rel for rel in files if rel in sizes]
valid_files(sizes) == {f \in Files : f \in sizes}

\* transfer.py:150  the pooled path is taken
pooled(workers, sizes) == workers > 1 /\ Cardinality(valid_files(sizes)) > 1

\* transfer.py:120,184  both functions end without a return statement: the
\* caller receives None, here the empty collection, whatever failed.
pull_return_value(failedPaths) == {}

\* paths whose transfer failed in the current scheduler call
failed_paths == {f \in Files : st[f] \in {"failed", "lost"}}

\* next consequence of a frida transport error raised on the main thread:
\* the except clause when inside the try block, else it leaves the program
raise_frida ==
  IF guarded
    THEN /\ pc' = "handle"
         /\ outcome' = outcome
    ELSE /\ pc' = "exit"
         /\ outcome' = "frida_error"

\* control after the tree transfer returned
after_pull == IF op = "bundle" THEN "pull_dump" ELSE "finish"

\* cli.py:409-419  the candidate loop: the first name whose process is in
\* the list with a PID other than dumper.pid ("" when the loop falls through)
RECURSIVE first_candidate(_, _, _)
first_candidate(i, processes, cur) ==
  IF i > Len(candidates) THEN ""
  ELSE IF candidates[i] \in processes /\ PidOf[candidates[i]] # cur
         THEN candidates[i]
         ELSE first_candidate(i + 1, processes, cur)

switch_candidate_any_pid(processes, cur) == first_candidate(1, processes, 0)

switch_candidate(processes, cur) == first_candidate(1, processes, cur)

\* cli.py:300-304 and 374-376  first branch of the handler
handler_first(hasSsh) == IF hasSsh THEN "ssh_walk" ELSE "sw_enum"

after_switch_always_retry(switched) == "enum"

\* cli.py:305-314 and 377-396  after _switch_to_transfer_process returned
after_switch(switched) == IF switched THEN "enum" ELSE "exit"

ssh_download_manifest_mixed == {<<"rpc", f>> : f \in rpc_sizes}

\* cli.py:226-232 and 332-338  download_dir gets the files walk returned
ssh_download_manifest == {<<"ssh", f>> : f \in ssh_files}

(* ------------------------------ Init ---------------------------------- *)
DownloadInit ==
  /\ op \in {"bundle", "sandbox"}
  /\ ssh \in BOOLEAN
  \* download_bundle / download_sandbox dispatch on ctx.ssh; the RPC methods
  \* they call can also be entered directly, whatever ctx.ssh is
  /\ entry \in IF ssh THEN {"dispatch", "via_frida"} ELSE {"dispatch"}
  /\ max_workers \in 1..MaxWorkers
  /\ dump_size \in IF op = "bundle" THEN {0, 1} ELSE {0}
  /\ pc = "start"
  /\ guarded = FALSE
  /\ outcome = ""
  /\ dead = FALSE
  /\ losses = 0
  /\ attached = TRUE
  /\ pid \in InitialPids
  /\ rpc_sizes = {}
  /\ st = NoUnits
  /\ pull_result = {}
  /\ walked = FALSE
  /\ ssh_files = {}
  /\ ssh_done = {}
  /\ procs = {}
  /\ target = ""
  /\ prev_pid = 0
  /\ switch_log = <<>>
  /\ late_start = FALSE
  /\ handled = 0
  /\ switches = 0

(* --------------------------- environment ------------------------------ *)
RpcPhases == {"enum", "dump_stat", "pull", "seq", "seq_active", "pool",
              "pull_dump"}

\* The attached process dies or is suspended: from here every RPC call on
\* this attachment raises TransportError / InvalidOperationError.
TransportLoss ==
  /\ UNCHANGED nonDownloadVars
  /\ pc \in RpcPhases
  /\ ~dead
  /\ losses < MaxLoss
  /\ dead' = TRUE
  /\ losses' = losses + 1
  /\ UNCHANGED <<op, entry, ssh, max_workers, dump_size, pc, guarded, outcome,
                 attached, pid, rpc_sizes, st, pull_result, walked, ssh_files,
                 ssh_done, procs, target, prev_pid, switch_log, late_start,
                 handled, switches>>

(* ------------------- download_bundle / download_sandbox --------------- *)
first_transport_rpc(e, hasSsh) == "enum"

\* cli.py:185-192, 199-204  `if ctx.ssh:` the SSH method, else the RPC
\* method; an RPC method entered directly starts with its RPC calls
first_transport(e, hasSsh) ==
  IF e = "dispatch" /\ hasSsh THEN "ssh_walk" ELSE "enum"

\* cli.py:174-204: SSH when ctx.ssh is set, else RPC; cli.py:249, 353: the
\* RPC methods open their try block
Dispatch ==
  /\ UNCHANGED nonDownloadVars
  /\ pc = "start"
  /\ pc' = first_transport(entry, ssh)
  /\ guarded' = (first_transport(entry, ssh) = "enum")
  /\ UNCHANGED <<op, entry, ssh, max_workers, dump_size, outcome, dead, losses,
                 attached, pid, rpc_sizes, st, pull_result, walked, ssh_files,
                 ssh_done, procs, target, prev_pid, switch_log, late_start,
                 handled, switches>>

\* cli.py:250-252, 354, 379: enumerate_bundle_files over RPC.  With the
\* session lost, list_files (or the per-path stat the batch falls back to)
\* raises; else the stat snapshot decides which listed files get a size.
RpcEnumerate ==
  /\ UNCHANGED nonDownloadVars
  /\ pc = "enum"
  /\ IF dead
       THEN /\ raise_frida
            /\ UNCHANGED rpc_sizes
       ELSE /\ \E sizes \in SUBSET Files : rpc_sizes' = sizes
            /\ pc' = IF op = "bundle" THEN "dump_stat" ELSE "pull"
            /\ UNCHANGED outcome
  /\ UNCHANGED <<op, entry, ssh, max_workers, dump_size, guarded, dead, losses,
                 attached, pid, st, pull_result, walked, ssh_files, ssh_done,
                 procs, target, prev_pid, switch_log, late_start, handled,
                 switches>>

\* cli.py:253-259: stat of the dump file, ProgressBar construction
DumpStat ==
  /\ UNCHANGED nonDownloadVars
  /\ pc = "dump_stat"
  /\ IF dead
       THEN raise_frida
       ELSE /\ pc' = "pull"
            /\ UNCHANGED outcome
  /\ UNCHANGED <<op, entry, ssh, max_workers, dump_size, guarded, dead, losses,
                 attached, pid, rpc_sizes, st, pull_result, walked, ssh_files,
                 ssh_done, procs, target, prev_pid, switch_log, late_start,
                 handled, switches>>

(* ----------------------- pull_bundle_via_frida ------------------------ *)
\* transfer.py:141-160: directories, valid_files, choice of the path; in
\* the pooled path every valid file is submitted to the executor at once
PullStart ==
  /\ UNCHANGED nonDownloadVars
  /\ pc = "pull"
  /\ st' = [f \in Files |->
              IF f \in valid_files(rpc_sizes) THEN "queued" ELSE "none"]
  /\ pc' = IF pooled(max_workers, rpc_sizes) THEN "pool" ELSE "seq"
  /\ late_start' = FALSE
  /\ pull_result' = {}
  /\ UNCHANGED <<op, entry, ssh, max_workers, dump_size, guarded, outcome,
                 dead, losses, attached, pid, rpc_sizes, walked, ssh_files,
                 ssh_done, procs, target, prev_pid, switch_log, handled,
                 switches>>

Queued == {f \in Files : st[f] = "queued"}
Active == {f \in Files : st[f] = "active"}

\* list order: the next unit is the lowest queued index
NextQueued == CHOOSE f \in Queued : \A g \in Queued : f <= g

pool_thread_always_idle(active, workers) == TRUE

\* transfer.py:203  ThreadPoolExecutor(max_workers=config.max_workers): a
\* submitted unit starts only on an idle pool thread
pool_thread_idle(active, workers) == Cardinality(active) < workers

unit_requeued_after_error == "queued"

\* transfer.py:200-201  a unit whose copy raised yields its (rel, False, e)
\* result and is not submitted again
unit_after_error == "failed"

\* transfer.py:163-173: the sequential loop enters pull_file_via_frida
SeqBegin ==
  /\ UNCHANGED nonDownloadVars
  /\ pc = "seq"
  /\ Queued # {}
  /\ st' = [st EXCEPT ![NextQueued] = "active"]
  /\ pc' = "seq_active"
  /\ UNCHANGED <<op, entry, ssh, max_workers, dump_size, guarded, outcome,
                 dead, losses, attached, pid, rpc_sizes, pull_result, walked,
                 ssh_files, ssh_done, procs, target, prev_pid, switch_log,
                 late_start, handled, switches>>

\* transfer.py:239-253 called at 166: the local open fails (OSError), or the
\* read raises (session lost), or the copy completes.  Nothing between the
\* call and the caller's frida except clause catches either error.
SeqEnd ==
  /\ UNCHANGED nonDownloadVars
  /\ pc = "seq_active"
  /\ \E f \in Active :
       \/ /\ st' = [st EXCEPT ![f] = "failed"]
          /\ pc' = "exit"
          /\ outcome' = "file_error"
       \/ /\ dead
          /\ st' = [st EXCEPT ![f] = "lost"]
          /\ raise_frida
       \/ /\ ~dead
          /\ st' = [st EXCEPT ![f] = "ok"]
          /\ pc' = "seq"
          /\ UNCHANGED outcome
  /\ UNCHANGED <<op, entry, ssh, max_workers, dump_size, guarded, dead, losses,
                 attached, pid, rpc_sizes, pull_result, walked, ssh_files,
                 ssh_done, procs, target, prev_pid, switch_log, late_start,
                 handled, switches>>

\* transfer.py:163: the loop is exhausted, the function returns
SeqReturn ==
  /\ UNCHANGED nonDownloadVars
  /\ pc = "seq"
  /\ Queued = {}
  /\ pull_result' = pull_return_value(failed_paths)
  /\ pc' = after_pull
  /\ UNCHANGED <<op, entry, ssh, max_workers, dump_size, guarded, outcome,
                 dead, losses, attached, pid, rpc_sizes, st, walked, ssh_files,
                 ssh_done, procs, target, prev_pid, switch_log, late_start,
                 handled, switches>>

(* ----------------------- _pull_files_parallel ------------------------- *)
\* transfer.py:203-204: a free pool thread takes the oldest queued unit
PoolStart ==
  /\ UNCHANGED nonDownloadVars
  /\ pc = "pool"
  /\ Queued # {}
  /\ pool_thread_idle(Active, max_workers)
  /\ st' = [st EXCEPT ![NextQueued] = "active"]
  /\ late_start' = (late_start \/ \E g \in Files : st[g] = "lost")
  /\ UNCHANGED <<op, entry, ssh, max_workers, dump_size, pc, guarded, outcome,
                 dead, losses, attached, pid, rpc_sizes, pull_result, walked,
                 ssh_files, ssh_done, procs, target, prev_pid, switch_log,
                 handled, switches>>

\* transfer.py:187-201: download_file; `except Exception` turns every error
\* of pull_file_via_frida, the frida transport errors included, into a
\* (rel, False, e) result
PoolFinish(f) ==
  /\ UNCHANGED nonDownloadVars
  /\ pc = "pool"
  /\ st[f] = "active"
  /\ \/ st' = [st EXCEPT ![f] = unit_after_error]
     \/ /\ dead
        /\ st' = [st EXCEPT ![f] = "lost"]
     \/ /\ ~dead
        /\ st' = [st EXCEPT ![f] = "ok"]
  /\ UNCHANGED <<op, entry, ssh, max_workers, dump_size, pc, guarded, outcome,
                 dead, losses, attached, pid, rpc_sizes, pull_result, walked,
                 ssh_files, ssh_done, procs, target, prev_pid, switch_log,
                 late_start, handled, switches>>

\* transfer.py:206-209: as_completed has yielded every future (failures are
\* logged), the executor shut down, and the function returns
PoolReturn ==
  /\ UNCHANGED nonDownloadVars
  /\ pc = "pool"
  /\ Queued = {}
  /\ Active = {}
  /\ pull_result' = pull_return_value(failed_paths)
  /\ pc' = after_pull
  /\ UNCHANGED <<op, entry, ssh, max_workers, dump_size, guarded, outcome,
                 dead, losses, attached, pid, rpc_sizes, st, walked, ssh_files,
                 ssh_done, procs, target, prev_pid, switch_log, late_start,
                 handled, switches>>

\* cli.py:271-277: the dump file; size is passed, so no stat, and a size of
\* 0 means no read at all
PullDump ==
  /\ UNCHANGED nonDownloadVars
  /\ pc = "pull_dump"
  /\ IF dump_size > 0 /\ dead
       THEN raise_frida
       ELSE /\ pc' = "finish"
            /\ UNCHANGED outcome
  /\ UNCHANGED <<op, entry, ssh, max_workers, dump_size, guarded, dead, losses,
                 attached, pid, rpc_sizes, st, pull_result, walked, ssh_files,
                 ssh_done, procs, target, prev_pid, switch_log, late_start,
                 handled, switches>>

\* cli.py:234, 278, 339, 369, 391: progress.finish() and normal return
Finish ==
  /\ UNCHANGED nonDownloadVars
  /\ pc = "finish"
  /\ pc' = "exit"
  /\ outcome' = "done"
  /\ UNCHANGED <<op, entry, ssh, max_workers, dump_size, guarded, dead, losses,
                 attached, pid, rpc_sizes, st, pull_result, walked, ssh_files,
                 ssh_done, procs, target, prev_pid, switch_log, late_start,
                 handled, switches>>

(* ------------------------- the except clause -------------------------- *)
\* cli.py:280-304 and 371-376: a frida transport error reached the except
\* clause; the aborted scheduler call and its units are gone
Handle ==
  /\ UNCHANGED nonDownloadVars
  /\ pc = "handle"
  /\ handled' = handled + 1
  /\ guarded' = FALSE
  /\ st' = NoUnits
  /\ pc' = handler_first(ssh)
  /\ walked' = FALSE
  /\ UNCHANGED <<op, entry, ssh, max_workers, dump_size, outcome, dead, losses,
                 attached, pid, rpc_sizes, pull_result, ssh_files, ssh_done,
                 procs, target, prev_pid, switch_log, late_start, switches>>

\* what follows the return of _switch_to_transfer_process: the retry
\* (cli.py:306-309 re-enters _download_via_frida and its try block;
\* cli.py:378-391 repeats the calls inside the except clause), or
\* SystemExit with the retry instruction (cli.py:311-314, 393-396)
switch_returns(result) ==
  /\ pc' = after_switch(result)
  /\ guarded' = (after_switch(result) = "enum" /\ op = "bundle")
  /\ outcome' = IF after_switch(result) = "exit" THEN "failed" ELSE outcome

(* ------------------- _switch_to_transfer_process ---------------------- *)
\* cli.py:404-411: enumerate_processes (False when it raises), then the
\* candidate loop up to the first match (False when it falls through)
SwEnum ==
  /\ UNCHANGED nonDownloadVars
  /\ pc = "sw_enum"
  /\ switch_log' = <<"enumerate_processes">>
  /\ \/ /\ procs' = {}
        /\ target' = ""
        /\ prev_pid' = pid
        /\ switch_returns(FALSE)
     \/ \E ps \in SUBSET CandidateNames :
          /\ procs' = ps
          /\ target' = switch_candidate(ps, pid)
          /\ prev_pid' = pid
          /\ IF switch_candidate(ps, pid) = ""
               THEN switch_returns(FALSE)
               ELSE /\ pc' = "sw_detach"
                    /\ UNCHANGED <<guarded, outcome>>
  /\ UNCHANGED <<op, entry, ssh, max_workers, dump_size, dead, losses,
                 attached, pid, rpc_sizes, st, pull_result, walked, ssh_files,
                 ssh_done, late_start, handled, switches>>

\* cli.py:413-416 with dumper.py:233-240: detach; an error of
\* session.detach() is swallowed and leaves the dumper's fields as they were
SwDetach ==
  /\ UNCHANGED nonDownloadVars
  /\ pc = "sw_detach"
  /\ switch_log' = Append(switch_log, "detach")
  /\ \/ /\ attached' = FALSE
        /\ pid' = 0
     \/ /\ attached
        /\ UNCHANGED <<attached, pid>>
  /\ pc' = "sw_attach"
  /\ UNCHANGED <<op, entry, ssh, max_workers, dump_size, guarded, outcome,
                 dead, losses, rpc_sizes, st, pull_result, walked, ssh_files,
                 ssh_done, procs, target, prev_pid, late_start, handled,
                 switches>>

\* cli.py:417-418 with dumper.py:32-48, 77-113 for retries=1: one attempt.
\* Success records the PID and returns True; an error of device.attach, or
\* of _load_agent after the session was set, leaves the switch, the handler
\* and the download as the raw exception.
SwAttach ==
  /\ UNCHANGED nonDownloadVars
  /\ pc = "sw_attach"
  /\ \/ /\ switch_log' = Append(switch_log, "attach")
        /\ attached' = TRUE
        /\ pid' = PidOf[target]
        /\ dead' = FALSE
        /\ switches' = switches + 1
        /\ switch_returns(TRUE)
     \/ /\ switch_log' = Append(Append(switch_log, "attach"), "raise")
        /\ attached' \in {attached, TRUE}
        /\ pc' = "exit"
        /\ outcome' = "attach_error"
        /\ UNCHANGED <<pid, dead, switches, guarded>>
  /\ UNCHANGED <<op, entry, ssh, max_workers, dump_size, losses, rpc_sizes, st,
                 pull_result, walked, ssh_files, ssh_done, procs, target,
                 prev_pid, late_start, handled>>

(* ----------------------------- SSH path ------------------------------- *)
\* cli.py:216-224, 325-331: walk builds the SSH manifest (a subtree whose
\* listing fails contributes nothing), then the dump file's stat
SshWalk ==
  /\ UNCHANGED nonDownloadVars
  /\ pc = "ssh_walk"
  /\ \E found \in SUBSET Files : ssh_files' = found
  /\ walked' = TRUE
  /\ pc' = "ssh_dir"
  /\ UNCHANGED <<op, entry, ssh, max_workers, dump_size, guarded, outcome,
                 dead, losses, attached, pid, rpc_sizes, st, pull_result,
                 ssh_done, procs, target, prev_pid, switch_log, late_start,
                 handled, switches>>

SshTodo == ssh_download_manifest \ ssh_done

\* ssh.py:164-166: download_dir copies the entries it was given, in order
SshDirStep ==
  /\ UNCHANGED nonDownloadVars
  /\ pc = "ssh_dir"
  /\ SshTodo # {}
  /\ LET e == CHOOSE x \in SshTodo : \A y \in SshTodo : x[2] <= y[2]
     IN  ssh_done' = ssh_done \cup {e}
  /\ UNCHANGED <<op, entry, ssh, max_workers, dump_size, pc, guarded, outcome,
                 dead, losses, attached, pid, rpc_sizes, st, pull_result,
                 walked, ssh_files, procs, target, prev_pid, switch_log,
                 late_start, handled, switches>>

\* cli.py:233 (bundle only): download_dir returned; the dump file follows
SshDirReturn ==
  /\ UNCHANGED nonDownloadVars
  /\ pc = "ssh_dir"
  /\ SshTodo = {}
  /\ pc' = "finish"
  /\ UNCHANGED <<op, entry, ssh, max_workers, dump_size, guarded, outcome,
                 dead, losses, attached, pid, rpc_sizes, st, pull_result,
                 walked, ssh_files, ssh_done, procs, target, prev_pid,
                 switch_log, late_start, handled, switches>>

(* ============================ ProgressBar ============================= *)
\* progress.py:71  the minimum distance of two unforced frames, 0.1 s
RateLimitMs == 100

\* progress.py:42  total: Optional[int] = None
NoTotal == -1

\* a frame without the ETA suffix (progress.py:84  eta_str = "")
NoEta == -1

Totals == {NoTotal, 0, 3, 100}
Deltas == {-1, 0, 1}

IdleThreads == [t \in Threads |-> "idle"]
ZeroPerThread == [t \in Threads |-> 0]

ProgressInit ==
  /\ pb_total \in Totals
  /\ pb_current = 0
  /\ pb_enabled \in BOOLEAN
  /\ pb_last_render = 0
  /\ pb_lock = 0
  /\ pb_pc = IdleThreads
  /\ pb_delta = ZeroPerThread
  /\ pb_read = ZeroPerThread
  /\ pb_ops = 0
  \* time.time() is far more than 0.1 s after the epoch
  /\ pb_now = RateLimitMs
  /\ pb_start_time = RateLimitMs
  /\ pb_frames = 0
  /\ pb_newlines = 0
  /\ pb_eta = NoEta
  /\ pb_expected = 0
  /\ pb_last = "init"

can_acquire_unguarded(t) == TRUE

\* progress.py:54, 61, 104, 111  `with self._lock`: entered when no thread
\* holds the lock
can_acquire(t) == pb_lock = 0

update_ignores_only_zero(delta) == delta = 0

\* progress.py:59-60  update returns at once for these deltas
update_ignores(delta) == delta <= 0

rate_limit_off(force, now, last) == FALSE

\* progress.py:71  `not force and (now - self._last_render) < 0.1`
rate_limited(force, now, last) == ~force /\ now - last < RateLimitMs

eta_shown_upto_total(current, total) ==
  total \notin {NoTotal, 0} /\ current > 0 /\ current <= total

\* progress.py:75-76, 85  `if self.total:` and, with
\* ratio = min(current / total, 1.0), `ratio > 0.01 and ratio < 1.0`
eta_shown(current, total) ==
  /\ total \notin {NoTotal, 0}
  /\ 100 * current > total
  /\ current < total

\* progress.py:83-88  remaining = elapsed / ratio - elapsed, in whole ms
eta_remaining(current, total, elapsed) ==
  (elapsed * total) \div current - elapsed

\* progress.py:65-73, 75-100  _render_unlocked: nothing when stdout is no
\* terminal, nothing within 0.1 s of the last frame unless forced, else a
\* frame showing `current` is written and its time recorded
render_unlocked(force, current) ==
  IF ~pb_enabled \/ rate_limited(force, pb_now, pb_last_render)
    THEN UNCHANGED <<pb_last_render, pb_frames, pb_eta>>
    ELSE /\ pb_last_render' = pb_now
         /\ pb_frames' = pb_frames + 1
         /\ pb_eta' = IF eta_shown(current, pb_total)
                        THEN eta_remaining(current, pb_total,
                                           pb_now - pb_start_time)
                        ELSE NoEta

finish_never_returns_early(enabled) == FALSE

\* progress.py:109-110  finish() returns at once when stdout is no terminal
finish_returns_early(enabled) == ~enabled

CanCall(t) == pb_pc[t] = "idle" /\ pb_ops < MaxOps

\* progress.py:57-61  update(delta): the early return, or the lock is taken
UpdateCall(t, d) ==
  /\ UNCHANGED nonProgressVars
  /\ CanCall(t)
  /\ pb_ops' = pb_ops + 1
  /\ pb_expected' = pb_expected + (IF d > 0 THEN d ELSE 0)
  /\ IF update_ignores(d)
       THEN /\ pb_last' = "update_ignored"
            /\ UNCHANGED <<pb_pc, pb_delta, pb_lock>>
       ELSE /\ can_acquire(t)
            /\ pb_lock' = t
            /\ pb_pc' = [pb_pc EXCEPT ![t] = "load"]
            /\ pb_delta' = [pb_delta EXCEPT ![t] = d]
            /\ pb_last' = "update"
  /\ UNCHANGED <<pb_total, pb_current, pb_enabled, pb_last_render,
                 pb_start_time, pb_read, pb_now, pb_frames, pb_newlines,
                 pb_eta>>

\* progress.py:62  self.current += delta, first half: the load
UpdateLoad(t) ==
  /\ UNCHANGED nonProgressVars
  /\ pb_pc[t] = "load"
  /\ pb_read' = [pb_read EXCEPT ![t] = pb_current]
  /\ pb_pc' = [pb_pc EXCEPT ![t] = "store"]
  /\ pb_last' = "update"
  /\ UNCHANGED <<pb_total, pb_current, pb_enabled, pb_last_render,
                 pb_start_time, pb_lock, pb_delta, pb_ops, pb_now, pb_frames,
                 pb_newlines, pb_eta, pb_expected>>

\* progress.py:62-63  second half: the store, then the render, and the
\* lock is released
UpdateStore(t) ==
  /\ UNCHANGED nonProgressVars
  /\ pb_pc[t] = "store"
  /\ pb_current' = pb_read[t] + pb_delta[t]
  /\ render_unlocked(FALSE, pb_read[t] + pb_delta[t])
  /\ pb_lock' = 0
  /\ pb_pc' = [pb_pc EXCEPT ![t] = "idle"]
  /\ pb_delta' = [pb_delta EXCEPT ![t] = 0]
  /\ pb_read' = [pb_read EXCEPT ![t] = 0]
  /\ pb_last' = "update"
  /\ UNCHANGED <<pb_total, pb_enabled, pb_start_time, pb_ops, pb_now,
                 pb_newlines, pb_expected>>

\* progress.py:52-55  set_total(total)
SetTotal(t, n) ==
  /\ UNCHANGED nonProgressVars
  /\ CanCall(t)
  /\ can_acquire(t)
  /\ pb_total' = n
  /\ pb_ops' = pb_ops + 1
  /\ pb_last' = "set_total"
  /\ UNCHANGED <<pb_current, pb_enabled, pb_last_render, pb_start_time,
                 pb_lock, pb_pc, pb_delta, pb_read, pb_now, pb_frames,
                 pb_newlines, pb_eta, pb_expected>>

\* progress.py:102-105  render(force)
Render(t, force) ==
  /\ UNCHANGED nonProgressVars
  /\ CanCall(t)
  /\ can_acquire(t)
  /\ render_unlocked(force, pb_current)
  /\ pb_ops' = pb_ops + 1
  /\ pb_last' = IF force THEN "render_forced" ELSE "render"
  /\ UNCHANGED <<pb_total, pb_current, pb_enabled, pb_start_time, pb_lock,
                 pb_pc, pb_delta, pb_read, pb_now, pb_newlines, pb_expected>>

\* progress.py:107-114  finish(): nothing when disabled, else a forced
\* render and the line terminator
FinishBar(t) ==
  /\ UNCHANGED nonProgressVars
  /\ CanCall(t)
  /\ pb_ops' = pb_ops + 1
  /\ pb_last' = "finish"
  /\ IF finish_returns_early(pb_enabled)
       THEN UNCHANGED <<pb_last_render, pb_frames, pb_newlines, pb_eta>>
       ELSE /\ can_acquire(t)
            /\ render_unlocked(TRUE, pb_current)
            /\ pb_newlines' = pb_newlines + 1
  /\ UNCHANGED <<pb_total, pb_current, pb_enabled, pb_start_time, pb_lock,
                 pb_pc, pb_delta, pb_read, pb_now, pb_expected>>

\* the clock advances
Tick ==
  /\ UNCHANGED nonProgressVars
  /\ pb_now < RateLimitMs + MaxTicks * TickMs
  /\ pb_now' = pb_now + TickMs
  /\ pb_last' = "tick"
  /\ UNCHANGED <<pb_total, pb_current, pb_enabled, pb_last_render,
                 pb_start_time, pb_lock, pb_pc, pb_delta, pb_read, pb_ops,
                 pb_frames, pb_newlines, pb_eta, pb_expected>>

ProgressNext ==
  \/ \E t \in Threads, d \in Deltas : UpdateCall(t, d)
  \/ \E t \in Threads : UpdateLoad(t)
  \/ \E t \in Threads : UpdateStore(t)
  \/ \E t \in Threads, n \in Totals \ {NoTotal} : SetTotal(t, n)
  \/ \E t \in Threads, force \in BOOLEAN : Render(t, force)
  \/ \E t \in Threads : FinishBar(t)
  \/ Tick

(* ----------------------- enumerate_bundle_files ----------------------- *)
\* relative paths a listing may hold (the tree  a/f1, a/b/f2)
Paths == {"a/f1", "a/b/f2"}

\* dumper.py:191-197  a stat result: exists, isDir, size
StatValues ==
  {[exists |-> FALSE, isDir |-> FALSE, size |-> 0],
   [exists |-> TRUE,  isDir |-> TRUE,  size |-> 0],
   [exists |-> TRUE,  isDir |-> FALSE, size |-> 50],
   [exists |-> TRUE,  isDir |-> FALSE, size |-> 100]}

\* transfer.py:63  every list of at most MaxList paths, repeats included
FileLists == UNION {[1..n -> Paths] : n \in 0..MaxList}

\* transfer.py:64  sizes = {}
NoSizes == [p \in {} |-> 0]

Min(a, b) == IF a <= b THEN a ELSE b

Max2(a, b) == IF a >= b THEN a ELSE b

batch_is_rest_of_list(i, size, n) == n

\* transfer.py:72-73  batch = files[i:i + batch_stat_size]: the list
\* position of the batch's last path
batch_last(i, size, n) == Min(i + size - 1, n)

in_manifest_if_exists(stat) == stat.exists

\* transfer.py:81, 91, 100  exists and not isDir
in_manifest(stat) == stat.exists /\ ~stat.isDir

\* transfer.py:82-84, 92-94  sizes[rel] = size; total += size, for a path
\* that passes the test, nothing for another
classify(rel) ==
  IF in_manifest(en_stat[rel])
    THEN /\ en_sizes' = [p \in DOMAIN en_sizes \cup {rel} |->
                           IF p = rel THEN en_stat[rel].size ELSE en_sizes[p]]
         /\ en_total' = en_total + en_stat[rel].size
    ELSE UNCHANGED <<en_sizes, en_total>>

\* transfer.py:72, 107  after a batch: the next batch, or the return
after_batch ==
  IF en_i + en_batch_size <= Len(en_files)
    THEN /\ en_pc' = "batch_call"
         /\ en_i' = en_i + en_batch_size
         /\ en_k' = 0
         /\ UNCHANGED en_ret_files
    ELSE /\ en_pc' = "returned"
         /\ en_ret_files' = en_files
         /\ UNCHANGED <<en_i, en_k>>

\* transfer.py:78, 88  `for rel in batch`: the next path of the batch, or
\* what follows the batch
after_entry ==
  IF en_k < batch_last(en_i, en_batch_size, Len(en_files))
    THEN /\ en_k' = en_k + 1
         /\ UNCHANGED <<en_pc, en_i, en_ret_files>>
    ELSE after_batch

EnumInit ==
  /\ en_files \in FileLists
  /\ en_batch_size \in 1..MaxBatch
  /\ en_stat \in [Paths -> StatValues]
  /\ en_pc = "list"
  /\ en_i = 0
  /\ en_k = 0
  /\ en_sizes = NoSizes
  /\ en_total = 0
  /\ en_ret_files = <<>>
  /\ en_pull = <<>>
  /\ en_lists = 0
  /\ en_batches = <<>>
  /\ en_failed = {}
  /\ en_call_raised = {}
  /\ en_single = {}

\* transfer.py:61-72  list_files, then the first batch; no stat at all for
\* an empty list
EnList ==
  /\ UNCHANGED nonEnumerateVars
  /\ en_pc = "list"
  /\ en_lists' = en_lists + 1
  /\ IF en_files = <<>>
       THEN /\ en_pc' = "returned"
            /\ en_ret_files' = en_files
            /\ UNCHANGED en_i
       ELSE /\ en_pc' = "batch_call"
            /\ en_i' = 1
            /\ UNCHANGED en_ret_files
  /\ UNCHANGED <<en_files, en_batch_size, en_stat, en_k, en_sizes, en_total,
                 en_pull, en_batches, en_failed, en_call_raised, en_single>>

\* transfer.py:61  list_files raises: the error leaves the function
EnListRaise ==
  /\ UNCHANGED nonEnumerateVars
  /\ en_pc = "list"
  /\ en_lists' = en_lists + 1
  /\ en_pc' = "raised"
  /\ UNCHANGED <<en_files, en_batch_size, en_stat, en_i, en_k, en_sizes,
                 en_total, en_ret_files, en_pull, en_batches, en_failed,
                 en_call_raised, en_single>>

\* transfer.py:73-77  stat_paths(paths) for the batch returns
EnBatchCall ==
  /\ UNCHANGED nonEnumerateVars
  /\ en_pc = "batch_call"
  /\ en_batches' = Append(en_batches,
                     <<en_i, batch_last(en_i, en_batch_size, Len(en_files))>>)
  /\ en_pc' = "batch_loop"
  /\ en_k' = en_i
  /\ UNCHANGED <<en_files, en_batch_size, en_stat, en_i, en_sizes, en_total,
                 en_ret_files, en_pull, en_lists, en_failed, en_call_raised,
                 en_single>>

\* transfer.py:77, 85-88  stat_paths(paths) raises: the fallback loop
\* starts at the batch's first path
EnBatchCallRaise ==
  /\ UNCHANGED nonEnumerateVars
  /\ en_pc = "batch_call"
  /\ en_batches' = Append(en_batches,
                     <<en_i, batch_last(en_i, en_batch_size, Len(en_files))>>)
  /\ en_failed' = en_failed \cup {en_i}
  /\ en_call_raised' = en_call_raised \cup {en_i}
  /\ en_pc' = "fallback"
  /\ en_k' = en_i
  /\ UNCHANGED <<en_files, en_batch_size, en_stat, en_i, en_sizes, en_total,
                 en_ret_files, en_pull, en_lists, en_single>>

\* transfer.py:78-84  one path of the batch's result
EnBatchEntry ==
  /\ UNCHANGED nonEnumerateVars
  /\ en_pc = "batch_loop"
  /\ classify(en_files[en_k])
  /\ after_entry
  /\ UNCHANGED <<en_files, en_batch_size, en_stat, en_pull, en_lists,
                 en_batches, en_failed, en_call_raised, en_single>>

\* transfer.py:80-88  the result of a path cannot be used (.get or int()
\* raises): what the earlier paths of the batch added stays, and the
\* fallback loop starts at the batch's first path
EnBatchEntryRaise ==
  /\ UNCHANGED nonEnumerateVars
  /\ en_pc = "batch_loop"
  /\ en_failed' = en_failed \cup {en_i}
  /\ en_pc' = "fallback"
  /\ en_k' = en_i
  /\ UNCHANGED <<en_files, en_batch_size, en_stat, en_i, en_sizes, en_total,
                 en_ret_files, en_pull, en_lists, en_batches, en_call_raised,
                 en_single>>

\* transfer.py:88-94  one path of the fallback loop: stat_path returns
EnFallbackEntry ==
  /\ UNCHANGED nonEnumerateVars
  /\ en_pc = "fallback"
  /\ en_single' = en_single \cup {en_k}
  /\ classify(en_files[en_k])
  /\ after_entry
  /\ UNCHANGED <<en_files, en_batch_size, en_stat, en_pull, en_lists,
                 en_batches, en_failed, en_call_raised>>

\* transfer.py:90  stat_path raises inside the except clause: the error
\* leaves the function
EnFallbackRaise ==
  /\ UNCHANGED nonEnumerateVars
  /\ en_pc = "fallback"
  /\ en_single' = en_single \cup {en_k}
  /\ en_pc' = "raised"
  /\ UNCHANGED <<en_files, en_batch_size, en_stat, en_i, en_k, en_sizes,
                 en_total, en_ret_files, en_pull, en_lists, en_batches,
                 en_failed, en_call_raised>>

valid_file_list_unfiltered(files, sizes) == files

\* transfer.py:146-147  valid_files = [f for f in files if f in sizes]
valid_file_list(files, sizes) ==
  SelectSeq(files, LAMBDA f : f \in DOMAIN sizes)

\* transfer.py:146-160  pull_bundle_via_frida is given the returned list
\* and manifest and selects what it will transfer
EnSelect ==
  /\ UNCHANGED nonEnumerateVars
  /\ en_pc = "returned"
  /\ en_pull' = valid_file_list(en_ret_files, en_sizes)
  /\ en_pc' = "selected"
  /\ UNCHANGED <<en_files, en_batch_size, en_stat, en_i, en_k, en_sizes,
                 en_total, en_ret_files, en_lists, en_batches, en_failed,
                 en_call_raised, en_single>>

EnumerateNext ==
  \/ EnList
  \/ EnListRaise
  \/ EnBatchCall
  \/ EnBatchCallRaise
  \/ EnBatchEntry
  \/ EnBatchEntryRaise
  \/ EnFallbackEntry
  \/ EnFallbackRaise
  \/ EnSelect

(* ------------------------ pull_file_via_frida ------------------------- *)
\* transfer.py:218  size: Optional[int] = None
NoSize == -1

RemoteKinds == {"file", "dir", "missing"}

\* The callers of the single-file copy and the size they pass:
\*   "direct"  no size (transfer.py:218 default): the function stats itself
\*   "tree"    transfer.py:165-172, 191-198: sizes[rel] of a manifest entry,
\*             which is a path whose stat said exists and not isDir
\*   "dump"    cli.py:253-254, 271-277: int(dump_stat.get("size", 0)) of a
\*             stat whose exists and isDir fields are not looked at
size_argument(caller, statSize) ==
  IF caller = "direct" THEN NoSize ELSE statSize

PullInit ==
  /\ pf_caller \in {"direct", "tree", "dump"}
  /\ pf_kind \in RemoteKinds
  /\ pf_caller = "tree" => pf_kind = "file"
  /\ pf_stat_size \in 0..MaxSize
  /\ pf_kind = "missing" => pf_stat_size = 0
  /\ pf_chunk \in 1..MaxChunk
  /\ pf_transport \in {"exact", "lossy"}
  /\ pf_pc = "start"
  /\ pf_size = size_argument(pf_caller, pf_stat_size)
  /\ pf_offset = 0
  /\ pf_local = FALSE
  /\ pf_written = 0
  /\ pf_reads = <<>>
  /\ pf_progress = <<>>
  /\ pf_error = ""

\* transfer.py:231-237  without a size: stat, the two errors, size from the
\* stat; with a size: nothing
PfStart ==
  /\ UNCHANGED nonPullVars
  /\ pf_pc = "start"
  /\ IF pf_size # NoSize
       THEN /\ pf_pc' = "open"
            /\ UNCHANGED <<pf_size, pf_error>>
       ELSE IF pf_kind = "missing"
         THEN /\ pf_pc' = "raised"
              /\ pf_error' = "not_found"
              /\ UNCHANGED pf_size
         ELSE IF pf_kind = "dir"
           THEN /\ pf_pc' = "raised"
                /\ pf_error' = "is_directory"
                /\ UNCHANGED pf_size
           ELSE /\ pf_pc' = "open"
                /\ pf_size' = pf_stat_size
                /\ UNCHANGED pf_error
  /\ UNCHANGED <<pf_caller, pf_kind, pf_stat_size, pf_chunk, pf_transport,
                 pf_offset, pf_local, pf_written, pf_reads, pf_progress>>

\* transfer.py:239-244  makedirs, open(local_path, "wb"), offset = 0
PfOpen ==
  /\ UNCHANGED nonPullVars
  /\ pf_pc = "open"
  /\ pf_local' = TRUE
  /\ pf_offset' = 0
  /\ pf_pc' = "loop"
  /\ UNCHANGED <<pf_caller, pf_kind, pf_stat_size, pf_chunk, pf_transport,
                 pf_size, pf_written, pf_reads, pf_progress, pf_error>>

\* transfer.py:239-243  makedirs or open raises OSError
PfOpenRaise ==
  /\ UNCHANGED nonPullVars
  /\ pf_pc = "open"
  /\ pf_pc' = "raised"
  /\ pf_error' = "io"
  /\ UNCHANGED <<pf_caller, pf_kind, pf_stat_size, pf_chunk, pf_transport,
                 pf_size, pf_offset, pf_local, pf_written, pf_reads,
                 pf_progress>>

read_size_whole_chunk(chunk, size, offset) == chunk

\* transfer.py:246  read_size = min(chunk_size, size - offset)
read_size(chunk, size, offset) == Min(chunk, size - offset)

\* dumper.py:211-222  lengths read_file may return for a request of `asked`
\* bytes: all of them on an exact transport reading a file; nothing for a
\* path that is no file; otherwise anything, from nothing to more than was
\* asked (the function returns what the agent sent)
read_lengths(asked) ==
  IF pf_kind # "file" THEN {0}
  ELSE IF pf_transport = "exact" THEN {asked}
  ELSE 0..(asked + MaxExtra)

\* transfer.py:248-249  `if not chunk: break`
stops_after(chunkLen, asked) == chunkLen = 0

\* the chunk the last read returned
chunk_len == pf_reads[Len(pf_reads)][3]

\* transfer.py:245-249  one turn of the loop, first part: the read and the
\* break on an empty chunk
PfRead ==
  /\ UNCHANGED nonPullVars
  /\ pf_pc = "loop"
  /\ pf_offset < pf_size
  /\ LET asked == read_size(pf_chunk, pf_size, pf_offset)
     IN \E n \in read_lengths(asked) :
          /\ pf_reads' = Append(pf_reads, <<pf_offset, asked, n>>)
          /\ pf_pc' = IF stops_after(n, asked) THEN "done" ELSE "write"
  /\ UNCHANGED <<pf_caller, pf_kind, pf_stat_size, pf_chunk, pf_transport,
                 pf_size, pf_offset, pf_local, pf_written, pf_progress,
                 pf_error>>

\* transfer.py:247  read_file raises (the transport is lost, or the agent
\* cannot read the path): the error leaves the function
PfReadRaise ==
  /\ UNCHANGED nonPullVars
  /\ pf_pc = "loop"
  /\ pf_offset < pf_size
  /\ pf_transport = "lossy" \/ pf_kind # "file"
  /\ pf_pc' = "raised"
  /\ pf_error' = "rpc"
  /\ UNCHANGED <<pf_caller, pf_kind, pf_stat_size, pf_chunk, pf_transport,
                 pf_size, pf_offset, pf_local, pf_written, pf_reads,
                 pf_progress>>

offset_unchanged(offset, chunkLen) == offset

\* transfer.py:251  offset += len(chunk)
offset_after(offset, chunkLen) == offset + chunkLen

\* transfer.py:250-251  handle.write(chunk); offset += len(chunk)
PfWrite ==
  /\ UNCHANGED nonPullVars
  /\ pf_pc = "write"
  /\ pf_written' = pf_written + chunk_len
  /\ pf_offset' = offset_after(pf_offset, chunk_len)
  /\ pf_pc' = "update"
  /\ UNCHANGED <<pf_caller, pf_kind, pf_stat_size, pf_chunk, pf_transport,
                 pf_size, pf_local, pf_reads, pf_progress, pf_error>>

\* transfer.py:250  handle.write raises OSError: nothing of the chunk is
\* counted and the error leaves the function
PfWriteRaise ==
  /\ UNCHANGED nonPullVars
  /\ pf_pc = "write"
  /\ pf_pc' = "raised"
  /\ pf_error' = "io"
  /\ UNCHANGED <<pf_caller, pf_kind, pf_stat_size, pf_chunk, pf_transport,
                 pf_size, pf_offset, pf_local, pf_written, pf_reads,
                 pf_progress>>

reported_delta_asked(chunkLen, asked) == asked

\* transfer.py:253  the delta passed to progress.update is len(chunk)
reported_delta(chunkLen, asked) == chunkLen

\* transfer.py:252-253  progress.update(len(chunk)), then the next turn
PfUpdate ==
  /\ UNCHANGED nonPullVars
  /\ pf_pc = "update"
  /\ pf_progress' = Append(pf_progress,
       reported_delta(chunk_len, pf_reads[Len(pf_reads)][2]))
  /\ pf_pc' = "loop"
  /\ UNCHANGED <<pf_caller, pf_kind, pf_stat_size, pf_chunk, pf_transport,
                 pf_size, pf_offset, pf_local, pf_written, pf_reads,
                 pf_error>>

\* transfer.py:245  `while offset < size` is false: the file is closed and
\* the function returns
PfLoopExit ==
  /\ UNCHANGED nonPullVars
  /\ pf_pc = "loop"
  /\ pf_offset >= pf_size
  /\ pf_pc' = "done"
  /\ UNCHANGED <<pf_caller, pf_kind, pf_stat_size, pf_chunk, pf_transport,
                 pf_size, pf_offset, pf_local, pf_written, pf_reads,
                 pf_progress, pf_error>>

PullNext ==
  \/ PfStart
  \/ PfOpen
  \/ PfOpenRaise
  \/ PfRead
  \/ PfReadRaise
  \/ PfWrite
  \/ PfWriteRaise
  \/ PfUpdate
  \/ PfLoopExit

(* ----------------- tree download: local file system ------------------- *)
\* A relative path is the sequence of its components; <<>> is local_dir.
DirUniverse == {<<"a">>, <<"a", "b">>, <<"dddd">>}
FileUniverse == {<<"a", "f">>, <<"a", "b", "g">>, <<"x", "h">>}

\* list order of the file paths
FileOrder(f) ==
  CASE f = <<"a", "f">> -> 1
    [] f = <<"a", "b", "g">> -> 2
    [] f = <<"x", "h">> -> 3

\* bytes of the remote file (static remote)
remote_content(f) ==
  CASE f = <<"a", "f">> -> <<1>>
    [] f = <<"a", "b", "g">> -> <<2, 2>>
    [] f = <<"x", "h">> -> <<>>

Absent == <<-1>>

RECURSIVE path_len(_)
\* len(rel) of the path string: the components joined by "/"
path_len(p) ==
  IF Len(p) = 0 THEN 0
  ELSE IF Len(p) = 1 THEN Len(p[1])
  ELSE Len(p[1]) + 1 + path_len(Tail(p))

\* a is a proper ancestor of b
IsAncestor(a, b) == Len(a) < Len(b) /\ SubSeq(b, 1, Len(a)) = a

\* os.path.dirname(rel)
dirname(p) == SubSeq(p, 1, Len(p) - 1)

RECURSIVE insert_by_len(_, _)
\* insert p behind every element that is not longer (stable)
insert_by_len(s, p) ==
  IF s = <<>> THEN <<p>>
  ELSE IF path_len(p) < path_len(s[1]) THEN <<p>> \o s
  ELSE <<s[1]>> \o insert_by_len(Tail(s), p)

RECURSIVE sort_by_len(_)
sort_by_len(s) ==
  IF s = <<>> THEN <<>>
  ELSE insert_by_len(sort_by_len(SubSeq(s, 1, Len(s) - 1)), s[Len(s)])

dirs_as_passed(s) == s

\* sorted(dirs, key=len)
sorted_dirs(s) == sort_by_len(s)

exist_ok_unset == FALSE

\* exist_ok=True of every os.makedirs call
exist_ok == TRUE

\* os.makedirs(path, exist_ok=...) raises FileExistsError
makedirs_raises(ldirs, p) == p \in ldirs /\ ~exist_ok

\* os.makedirs(path): the path and its missing ancestors exist afterwards
makedirs(ldirs, p) == ldirs \cup {SubSeq(p, 1, k) : k \in 0..Len(p)}

\* open(local_path, "wb"): the file exists and is empty
open_wb(old) == <<>>

tree_files_unfiltered(transport, files, sizes) == files

\* the files the tree download transfers: over RPC the passed paths that
\* have a size (transfer.py:147), over SFTP every passed path
tree_valid_files(transport, files, sizes) ==
  IF transport = "frida" THEN files \cap sizes ELSE files

tree_next_any(f, queued) == TRUE

\* for rel in valid_files / for ... in files: the next file copied is the
\* first of the list that has not been copied
tree_next_in_list(f, queued) ==
  \A g \in queued : FileOrder(f) <= FileOrder(g)

RECURSIVE Perms(_)
\* the lists without repetition over a set
Perms(S) ==
  IF S = {} THEN {<<>>}
  ELSE UNION {{<<x>> \o s : s \in Perms(S \ {x})} : x \in S}

Range(s) == {s[k] : k \in 1..Len(s)}

\* SshClient.walk appends a directory before it descends into it, and a
\* file only below a directory it has appended
WalkConsistent(dirs, files) ==
  /\ \A d \in dirs : Len(d) > 1 => dirname(d) \in dirs
  /\ \A f \in files : dirname(f) \in dirs

\* nothing done yet and an empty local destination
TreeFresh ==
  /\ tr_i = 1
  /\ tr_made = <<>>
  /\ tr_st = [f \in FileUniverse |-> "none"]
  /\ tr_ldirs = {}
  /\ tr_lfiles = [f \in FileUniverse |-> Absent]
  /\ tr_failed = FALSE
  /\ tr_run = 1
  /\ tr_first = [dirs |-> {}, files |-> [f \in FileUniverse |-> Absent]]

TreeInit ==
  /\ tr_transport \in {"frida", "ssh"}
  /\ tr_dirs \in UNION {Perms(D) : D \in SUBSET DirUniverse}
  /\ tr_files \in SUBSET FileUniverse
  /\ tr_sizes \in SUBSET tr_files
  /\ tr_workers \in 1..MaxWorkers
  /\ tr_transport = "ssh" =>
       /\ WalkConsistent(Range(tr_dirs), tr_files)
       /\ tr_sizes = tr_files
       /\ tr_workers = 1
  /\ tr_pc = "start"
  /\ TreeFresh

TrQueued == {f \in FileUniverse : tr_st[f] = "queued"}
TrActive == {f \in FileUniverse : tr_st[f] = "active"}
LocalTree == [dirs |-> tr_ldirs, files |-> tr_lfiles]
LocalFiles == {f \in FileUniverse : tr_lfiles[f] # Absent}

\* os.makedirs(local_dir, exist_ok=True)
TrMkRoot ==
  /\ UNCHANGED nonTreeVars
  /\ tr_pc = "start"
  /\ IF makedirs_raises(tr_ldirs, <<>>)
       THEN tr_pc' = "local_error" /\ UNCHANGED tr_ldirs
       ELSE tr_pc' = "mkdirs" /\ tr_ldirs' = makedirs(tr_ldirs, <<>>)
  /\ UNCHANGED <<tr_transport, tr_dirs, tr_files, tr_sizes, tr_workers, tr_i,
                 tr_made, tr_st, tr_lfiles, tr_failed, tr_run, tr_first>>

\* one iteration of  for rel in sorted(dirs, key=len): os.makedirs(...)
TrMkdir ==
  /\ UNCHANGED nonTreeVars
  /\ tr_pc = "mkdirs"
  /\ tr_i <= Len(tr_dirs)
  /\ LET rel == sorted_dirs(tr_dirs)[tr_i] IN
       IF makedirs_raises(tr_ldirs, rel)
         THEN /\ tr_pc' = "local_error"
              /\ UNCHANGED <<tr_ldirs, tr_made, tr_i>>
         ELSE /\ tr_ldirs' = makedirs(tr_ldirs, rel)
              /\ tr_made' = Append(tr_made, rel)
              /\ tr_i' = tr_i + 1
              /\ UNCHANGED tr_pc
  /\ UNCHANGED <<tr_transport, tr_dirs, tr_files, tr_sizes, tr_workers,
                 tr_st, tr_lfiles, tr_failed, tr_run, tr_first>>

\* the directory loop is over: choose the files and the way to copy them
TrSelect ==
  /\ UNCHANGED nonTreeVars
  /\ tr_pc = "mkdirs"
  /\ tr_i > Len(tr_dirs)
  /\ LET valid == tree_valid_files(tr_transport, tr_files, tr_sizes) IN
       /\ tr_st' = [f \in FileUniverse |->
                      IF f \in valid THEN "queued" ELSE "none"]
       /\ tr_pc' = IF /\ tr_transport = "frida"
                      /\ tr_workers > 1
                      /\ Cardinality(valid) > 1
                   THEN "pool" ELSE "seq"
  /\ UNCHANGED <<tr_transport, tr_dirs, tr_files, tr_sizes, tr_workers, tr_i,
                 tr_made, tr_ldirs, tr_lfiles, tr_failed, tr_run, tr_first>>

\* a transfer begins: pull_file_via_frida makes the parent directory and
\* opens the local file; sftp.get opens the local file
TrOpen(f) ==
  /\ UNCHANGED nonTreeVars
  /\ tr_pc \in {"seq", "pool"}
  /\ tr_st[f] = "queued"
  /\ IF tr_pc = "seq"
       THEN /\ TrActive = {}
            /\ tree_next_in_list(f, TrQueued)
       ELSE pool_thread_idle(TrActive, tr_workers)
  /\ IF \/ tr_transport = "frida" /\ makedirs_raises(tr_ldirs, dirname(f))
        \/ tr_transport = "ssh" /\ dirname(f) \notin tr_ldirs
       THEN /\ tr_pc' = "local_error"
            /\ UNCHANGED <<tr_ldirs, tr_lfiles, tr_st>>
       ELSE /\ tr_ldirs' = makedirs(tr_ldirs, dirname(f))
            /\ tr_lfiles' = [tr_lfiles EXCEPT ![f] = open_wb(@)]
            /\ tr_st' = [tr_st EXCEPT ![f] = "active"]
            /\ UNCHANGED tr_pc
  /\ UNCHANGED <<tr_transport, tr_dirs, tr_files, tr_sizes, tr_workers, tr_i,
                 tr_made, tr_failed, tr_run, tr_first>>

\* every read of the transfer succeeded: the remote bytes are written
TrWrite(f) ==
  /\ UNCHANGED nonTreeVars
  /\ tr_pc \in {"seq", "pool"}
  /\ tr_st[f] = "active"
  /\ tr_lfiles' = [tr_lfiles EXCEPT ![f] = @ \o remote_content(f)]
  /\ tr_st' = [tr_st EXCEPT ![f] = "ok"]
  /\ UNCHANGED <<tr_transport, tr_dirs, tr_files, tr_sizes, tr_workers, tr_pc,
                 tr_i, tr_made, tr_ldirs, tr_failed, tr_run, tr_first>>

\* a transport call of the transfer raises: the pool goes on with the
\* other units, the loops of transfer.py:163 and ssh.py:164 are left
TrFail(f) ==
  /\ UNCHANGED nonTreeVars
  /\ tr_pc \in {"seq", "pool"}
  /\ tr_st[f] = "active"
  /\ tr_transport = "frida" => remote_content(f) # <<>>
  /\ tr_failed' = TRUE
  /\ tr_st' = [tr_st EXCEPT ![f] = unit_after_error]
  /\ tr_pc' = IF tr_pc = "pool" THEN "pool" ELSE "error"
  /\ UNCHANGED <<tr_transport, tr_dirs, tr_files, tr_sizes, tr_workers, tr_i,
                 tr_made, tr_ldirs, tr_lfiles, tr_run, tr_first>>

\* the tree download returns
TrReturn ==
  /\ UNCHANGED nonTreeVars
  /\ tr_pc \in {"seq", "pool"}
  /\ TrQueued = {}
  /\ TrActive = {}
  /\ tr_pc' = "returned"
  /\ tr_first' = IF tr_run = 1 THEN LocalTree ELSE tr_first
  /\ UNCHANGED <<tr_transport, tr_dirs, tr_files, tr_sizes, tr_workers, tr_i,
                 tr_made, tr_st, tr_ldirs, tr_lfiles, tr_failed, tr_run>>

\* the same tree download is run again into the same local directory
TrRerun ==
  /\ UNCHANGED nonTreeVars
  /\ tr_pc \in {"returned", "error"}
  /\ tr_run < MaxRuns
  /\ tr_run' = tr_run + 1
  /\ tr_pc' = "start"
  /\ tr_i' = 1
  /\ tr_made' = <<>>
  /\ tr_st' = [f \in FileUniverse |-> "none"]
  /\ UNCHANGED <<tr_transport, tr_dirs, tr_files, tr_sizes, tr_workers,
                 tr_ldirs, tr_lfiles, tr_failed, tr_first>>

TreeNext ==
  \/ TrMkRoot
  \/ TrMkdir
  \/ TrSelect
  \/ \E f \in FileUniverse : TrOpen(f)
  \/ \E f \in FileUniverse : TrWrite(f)
  \/ \E f \in FileUniverse : TrFail(f)
  \/ TrReturn
  \/ TrRerun

(* ------------------------------ SshClient ----------------------------- *)
sftp_lock_ignored(lock) == TRUE

\* with self._lock: the lock can be taken when no thread holds it
sftp_lock_free(lock) == lock = 0

close_error_raised == FALSE

\* close(): try: ....close()  except Exception: pass
close_error_swallowed == TRUE

\* SshClient.__init__
SshClientInit ==
  /\ sc_client = 0
  /\ sc_sftp = 0
  /\ sc_lock = 0
  /\ sc_pc = [t \in Threads |-> "idle"]
  /\ sc_res = [t \in Threads |-> ""]
  /\ sc_got = [t \in Threads |-> 0]
  /\ sc_ops = 0
  /\ sc_conns = 0
  /\ sc_chans = 0
  /\ sc_open_calls = 0
  /\ sc_open_errs = 0
  /\ sc_opened = {}
  /\ sc_ret = {}
  /\ sc_chan_closed = {}
  /\ sc_conn_closed = {}
  /\ sc_close_raised = FALSE

\* connect() on a client that is not connected
ScConnect(t) ==
  /\ UNCHANGED nonSshClientVars
  /\ sc_pc[t] = "idle"
  /\ sc_ops < MaxCalls
  /\ sc_client = 0
  /\ sc_ops' = sc_ops + 1
  /\ sc_conns' = sc_conns + 1
  /\ sc_client' = sc_conns + 1
  /\ sc_res' = [sc_res EXCEPT ![t] = "connected"]
  /\ UNCHANGED <<sc_sftp, sc_lock, sc_pc, sc_got, sc_chans, sc_open_calls,
                 sc_open_errs, sc_opened, sc_ret, sc_chan_closed,
                 sc_conn_closed, sc_close_raised>>

\* sftp: with self._lock, then the test  self._sftp is None
ScSftpEnter(t) ==
  /\ UNCHANGED nonSshClientVars
  /\ sc_pc[t] = "idle"
  /\ sc_ops < MaxCalls
  /\ sftp_lock_free(sc_lock)
  /\ sc_ops' = sc_ops + 1
  /\ sc_lock' = t
  /\ sc_pc' = [sc_pc EXCEPT ![t] = IF sc_sftp = 0 THEN "sftp_open"
                                   ELSE "sftp_return"]
  /\ sc_res' = [sc_res EXCEPT ![t] = ""]
  /\ sc_got' = [sc_got EXCEPT ![t] = 0]
  /\ UNCHANGED <<sc_client, sc_sftp, sc_conns, sc_chans, sc_open_calls,
                 sc_open_errs, sc_opened, sc_ret, sc_chan_closed,
                 sc_conn_closed, sc_close_raised>>

\* sftp: no client: RuntimeError("SSH client not connected.")
ScSftpNotConnected(t) ==
  /\ UNCHANGED nonSshClientVars
  /\ sc_pc[t] = "sftp_open"
  /\ sc_client = 0
  /\ sc_lock' = 0
  /\ sc_pc' = [sc_pc EXCEPT ![t] = "idle"]
  /\ sc_res' = [sc_res EXCEPT ![t] = "not_connected"]
  /\ UNCHANGED <<sc_client, sc_sftp, sc_got, sc_ops, sc_conns, sc_chans,
                 sc_open_calls, sc_open_errs, sc_opened, sc_ret,
                 sc_chan_closed, sc_conn_closed, sc_close_raised>>

\* sftp: self._sftp = self._client.open_sftp()
ScSftpOpen(t) ==
  /\ UNCHANGED nonSshClientVars
  /\ sc_pc[t] = "sftp_open"
  /\ sc_client # 0
  /\ sc_open_calls' = sc_open_calls + 1
  /\ sc_chans' = sc_chans + 1
  /\ sc_sftp' = sc_chans + 1
  /\ sc_opened' = sc_opened \cup {sc_chans + 1}
  /\ sc_pc' = [sc_pc EXCEPT ![t] = "sftp_return"]
  /\ UNCHANGED <<sc_client, sc_lock, sc_res, sc_got, sc_ops, sc_conns,
                 sc_open_errs, sc_ret, sc_chan_closed, sc_conn_closed,
                 sc_close_raised>>

\* sftp: open_sftp raises; the lock is released, self._sftp stays None
ScSftpOpenRaise(t) ==
  /\ UNCHANGED nonSshClientVars
  /\ sc_pc[t] = "sftp_open"
  /\ sc_client # 0
  /\ sc_open_calls' = sc_open_calls + 1
  /\ sc_open_errs' = sc_open_errs + 1
  /\ sc_lock' = 0
  /\ sc_pc' = [sc_pc EXCEPT ![t] = "idle"]
  /\ sc_res' = [sc_res EXCEPT ![t] = "open_error"]
  /\ UNCHANGED <<sc_client, sc_sftp, sc_got, sc_ops, sc_conns, sc_chans,
                 sc_opened, sc_ret, sc_chan_closed, sc_conn_closed,
                 sc_close_raised>>

\* sftp: return self._sftp, leaving the with block
ScSftpReturn(t) ==
  /\ UNCHANGED nonSshClientVars
  /\ sc_pc[t] = "sftp_return"
  /\ sc_lock' = 0
  /\ sc_pc' = [sc_pc EXCEPT ![t] = "idle"]
  /\ sc_res' = [sc_res EXCEPT ![t] = "channel"]
  /\ sc_got' = [sc_got EXCEPT ![t] = sc_sftp]
  /\ sc_ret' = sc_ret \cup {sc_sftp}
  /\ UNCHANGED <<sc_client, sc_sftp, sc_ops, sc_conns, sc_chans,
                 sc_open_calls, sc_open_errs, sc_opened, sc_chan_closed,
                 sc_conn_closed, sc_close_raised>>

\* close(): with self._lock
ScCloseEnter(t) ==
  /\ UNCHANGED nonSshClientVars
  /\ sc_pc[t] = "idle"
  /\ sc_ops < MaxCalls
  /\ sftp_lock_free(sc_lock)
  /\ sc_ops' = sc_ops + 1
  /\ sc_lock' = t
  /\ sc_pc' = [sc_pc EXCEPT ![t] = "close_sftp"]
  /\ sc_res' = [sc_res EXCEPT ![t] = ""]
  /\ UNCHANGED <<sc_client, sc_sftp, sc_got, sc_conns, sc_chans,
                 sc_open_calls, sc_open_errs, sc_opened, sc_ret,
                 sc_chan_closed, sc_conn_closed, sc_close_raised>>

\* close(): if self._sftp: try close(); self._sftp = None
ScCloseSftp(t) ==
  /\ UNCHANGED nonSshClientVars
  /\ sc_pc[t] = "close_sftp"
  /\ \E raised \in IF sc_sftp = 0 THEN {FALSE} ELSE BOOLEAN :
       /\ sc_chan_closed' = IF sc_sftp = 0 THEN sc_chan_closed
                            ELSE sc_chan_closed \cup {sc_sftp}
       /\ sc_close_raised' = (sc_close_raised \/ raised)
       /\ IF raised /\ ~close_error_swallowed
            THEN /\ sc_lock' = 0
                 /\ sc_pc' = [sc_pc EXCEPT ![t] = "idle"]
                 /\ sc_res' = [sc_res EXCEPT ![t] = "close_error"]
                 /\ UNCHANGED <<sc_sftp, sc_open_calls, sc_open_errs,
                                sc_opened, sc_ret>>
            ELSE /\ sc_sftp' = 0
                 /\ sc_open_calls' = 0
                 /\ sc_open_errs' = 0
                 /\ sc_opened' = {}
                 /\ sc_ret' = {}
                 /\ sc_pc' = [sc_pc EXCEPT ![t] = "close_client"]
                 /\ UNCHANGED <<sc_lock, sc_res>>
  /\ UNCHANGED <<sc_client, sc_got, sc_ops, sc_conns, sc_chans,
                 sc_conn_closed>>

\* close(): if self._client: try close(); self._client = None
ScCloseClient(t) ==
  /\ UNCHANGED nonSshClientVars
  /\ sc_pc[t] = "close_client"
  /\ \E raised \in IF sc_client = 0 THEN {FALSE} ELSE BOOLEAN :
       /\ sc_conn_closed' = IF sc_client = 0 THEN sc_conn_closed
                            ELSE sc_conn_closed \cup {sc_client}
       /\ sc_close_raised' = (sc_close_raised \/ raised)
       /\ IF raised /\ ~close_error_swallowed
            THEN /\ sc_res' = [sc_res EXCEPT ![t] = "close_error"]
                 /\ UNCHANGED sc_client
            ELSE /\ sc_client' = 0
                 /\ sc_res' = [sc_res EXCEPT ![t] = "closed"]
  /\ sc_lock' = 0
  /\ sc_pc' = [sc_pc EXCEPT ![t] = "idle"]
  /\ UNCHANGED <<sc_sftp, sc_got, sc_ops, sc_conns, sc_chans, sc_open_calls,
                 sc_open_errs, sc_opened, sc_ret, sc_chan_closed>>

SshClientNext ==
  \E t \in Threads :
    \/ ScConnect(t)
    \/ ScSftpEnter(t)
    \/ ScSftpNotConnected(t)
    \/ ScSftpOpen(t)
    \/ ScSftpOpenRaise(t)
    \/ ScSftpReturn(t)
    \/ ScCloseEnter(t)
    \/ ScCloseSftp(t)
    \/ ScCloseClient(t)

(* ------------------------------ SshTunnel ----------------------------- *)
Conns == 1..MaxConns
Starts == 1..MaxStarts

\* positions of a thread that is running
AlRunning == {"check", "call", "accept"}
HRunning == {"start", "check", "select"}

open_channel_pooled(c) == 1

\* transport.open_channel("direct-tcpip", ...) returns a new channel at
\* every call: the one made by the handler of connection c is channel c
open_channel(c) == c

\* a server socket other than the tunnel's present one has been closed
\* by stop()
srv_closed(s) == s # tn_server

\* SshTunnel.__init__
TunnelInit ==
  /\ tn_server = 0
  /\ tn_stop_event = FALSE
  /\ tn_starts = 0
  /\ al_pc = [g \in Starts |-> "none"]
  /\ al_srv = [g \in Starts |-> 0]
  /\ al_stopped = [g \in Starts |-> FALSE]
  /\ h_pc = [c \in Conns |-> "none"]
  /\ h_srv = [c \in Conns |-> 0]
  /\ h_stopped = [c \in Conns |-> FALSE]
  /\ h_chan = [c \in Conns |-> 0]

\* start() on a tunnel that is not listening: a new listening socket, the
\* stop flag cleared, a new _accept_loop thread
TnStart ==
  /\ UNCHANGED nonTunnelVars
  /\ tn_starts < MaxStarts
  /\ tn_server = 0
  /\ tn_starts' = tn_starts + 1
  /\ tn_server' = tn_starts + 1
  /\ tn_stop_event' = FALSE
  /\ al_pc' = [al_pc EXCEPT ![tn_starts + 1] = "check"]
  /\ UNCHANGED <<al_srv, al_stopped, h_pc, h_srv, h_stopped, h_chan>>

\* stop(): the flag set, the listening socket closed and forgotten
TnStop ==
  /\ UNCHANGED nonTunnelVars
  /\ tn_starts > 0
  /\ tn_stop_event' = TRUE
  /\ tn_server' = 0
  /\ al_stopped' = [g \in Starts |-> al_stopped[g] \/ al_pc[g] \in AlRunning]
  /\ h_stopped' = [c \in Conns |-> h_stopped[c] \/ h_pc[c] \in HRunning]
  /\ UNCHANGED <<tn_starts, al_pc, al_srv, h_pc, h_srv, h_chan>>

\* a local program connects to the listening socket
ConnArrive(c) ==
  /\ UNCHANGED nonTunnelVars
  /\ h_pc[c] = "none"
  /\ \A b \in Conns : b < c => h_pc[b] # "none"
  /\ tn_server # 0
  /\ h_pc' = [h_pc EXCEPT ![c] = "pending"]
  /\ h_srv' = [h_srv EXCEPT ![c] = tn_server]
  /\ UNCHANGED <<tn_server, tn_stop_event, tn_starts, al_pc, al_srv,
                 al_stopped, h_stopped, h_chan>>

\* _accept_loop: while not self._stop_event.is_set()
ACheck(g) ==
  /\ UNCHANGED nonTunnelVars
  /\ al_pc[g] = "check"
  /\ al_pc' = [al_pc EXCEPT ![g] = IF tn_stop_event THEN "done" ELSE "call"]
  /\ al_stopped' = [al_stopped EXCEPT ![g] =
       IF al_pc'[g] \in {"done", "crashed"} THEN FALSE ELSE @]
  /\ UNCHANGED <<tn_server, tn_stop_event, tn_starts, al_srv, h_pc, h_srv,
                 h_stopped, h_chan>>

\* _accept_loop: self._server.accept() is called on whatever self._server
\* is now; on None the AttributeError ends the thread
ACall(g) ==
  /\ UNCHANGED nonTunnelVars
  /\ al_pc[g] = "call"
  /\ al_pc' = [al_pc EXCEPT ![g] = IF tn_server = 0 THEN "crashed"
                                   ELSE "accept"]
  /\ al_srv' = [al_srv EXCEPT ![g] = tn_server]
  /\ al_stopped' = [al_stopped EXCEPT ![g] =
       IF al_pc'[g] \in {"done", "crashed"} THEN FALSE ELSE @]
  /\ UNCHANGED <<tn_server, tn_stop_event, tn_starts, h_pc, h_srv, h_stopped,
                 h_chan>>

\* _accept_loop: accept() returns a connection; its handler thread starts
AAccept(g, c) ==
  /\ UNCHANGED nonTunnelVars
  /\ al_pc[g] = "accept"
  /\ ~srv_closed(al_srv[g])
  /\ h_pc[c] = "pending"
  /\ h_srv[c] = al_srv[g]
  /\ h_pc' = [h_pc EXCEPT ![c] = "start"]
  /\ h_srv' = [h_srv EXCEPT ![c] = 0]
  /\ al_pc' = [al_pc EXCEPT ![g] = "check"]
  /\ al_srv' = [al_srv EXCEPT ![g] = 0]
  /\ UNCHANGED <<tn_server, tn_stop_event, tn_starts, al_stopped, h_stopped,
                 h_chan>>

\* _accept_loop: accept() ends with socket.timeout after one second
ATimeout(g) ==
  /\ UNCHANGED nonTunnelVars
  /\ al_pc[g] = "accept"
  /\ al_pc' = [al_pc EXCEPT ![g] = "check"]
  /\ al_srv' = [al_srv EXCEPT ![g] = 0]
  /\ UNCHANGED <<tn_server, tn_stop_event, tn_starts, al_stopped, h_pc, h_srv,
                 h_stopped, h_chan>>

\* _accept_loop: accept() on the closed socket raises OSError: break
AOSError(g) ==
  /\ UNCHANGED nonTunnelVars
  /\ al_pc[g] = "accept"
  /\ srv_closed(al_srv[g])
  /\ al_pc' = [al_pc EXCEPT ![g] = "done"]
  /\ al_srv' = [al_srv EXCEPT ![g] = 0]
  /\ al_stopped' = [al_stopped EXCEPT ![g] =
       IF al_pc'[g] \in {"done", "crashed"} THEN FALSE ELSE @]
  /\ UNCHANGED <<tn_server, tn_stop_event, tn_starts, h_pc, h_srv, h_stopped,
                 h_chan>>

OpenOutcomes == {"no_transport", "open_failed", "opened"}

\* _handle_client up to its loop: self._ssh_client.transport raises
\* outside any try when the SshClient has no transport (any more), and the
\* thread ends ("crashed"); open_channel raises, client.close() and return
\* ("done"); or open_channel returns the channel of this handler
HOpen(c) ==
  /\ UNCHANGED nonTunnelVars
  /\ h_pc[c] = "start"
  /\ \E ended \in OpenOutcomes :
       /\ h_pc' = [h_pc EXCEPT ![c] =
                     CASE ended = "no_transport" -> "crashed"
                       [] ended = "open_failed" -> "done"
                       [] ended = "opened" -> "check"]
       /\ h_chan' = [h_chan EXCEPT ![c] =
                       IF ended = "opened" THEN open_channel(c) ELSE @]
  /\ h_stopped' = [h_stopped EXCEPT ![c] =
       IF h_pc'[c] \in {"done", "crashed"} THEN FALSE ELSE @]
  /\ UNCHANGED <<tn_server, tn_stop_event, tn_starts, al_pc, al_srv,
                 al_stopped, h_srv>>

\* _handle_client: while not self._stop_event.is_set(); when it is set
\* the finally block closes the channel and the socket ("done")
HCheck(c) ==
  /\ UNCHANGED nonTunnelVars
  /\ h_pc[c] = "check"
  /\ h_pc' = [h_pc EXCEPT ![c] = IF tn_stop_event THEN "done" ELSE "select"]
  /\ h_chan' = [h_chan EXCEPT ![c] = IF tn_stop_event THEN 0 ELSE @]
  /\ h_stopped' = [h_stopped EXCEPT ![c] =
       IF h_pc'[c] \in {"done", "crashed"} THEN FALSE ELSE @]
  /\ UNCHANGED <<tn_server, tn_stop_event, tn_starts, al_pc, al_srv,
                 al_stopped, h_srv>>

SelectOutcomes == {"timeout", "data", "eof", "error"}

\* _handle_client: select(..., 1.0) and the recv / sendall that follow:
\* nothing readable within the second, data forwarded between the socket
\* and the channel of this handler, an empty read, or
\* an exception; the last two run the finally block ("done")
HSelect(c) ==
  /\ UNCHANGED nonTunnelVars
  /\ h_pc[c] = "select"
  /\ \E ended \in SelectOutcomes :
       /\ h_pc' = [h_pc EXCEPT ![c] = IF ended \in {"eof", "error"}
                                      THEN "done" ELSE "check"]
       /\ h_stopped' = [h_stopped EXCEPT ![c] =
                          IF ended \in {"eof", "error"} THEN FALSE ELSE @]
       /\ h_chan' = [h_chan EXCEPT ![c] =
                       IF ended \in {"eof", "error"} THEN 0 ELSE @]
  /\ UNCHANGED <<tn_server, tn_stop_event, tn_starts, al_pc, al_srv,
                 al_stopped, h_srv>>

\* the steps of one _accept_loop thread
AcceptLoopStep(g) ==
  \/ ACheck(g)
  \/ ACall(g)
  \/ \E c \in Conns : AAccept(g, c)
  \/ ATimeout(g)
  \/ AOSError(g)

\* the steps of one _handle_client thread
HandlerStep(c) ==
  \/ HOpen(c)
  \/ HCheck(c)
  \/ HSelect(c)

TunnelNext ==
  \/ TnStart
  \/ TnStop
  \/ \E c \in Conns : ConnArrive(c)
  \/ \E g \in Starts : AcceptLoopStep(g)
  \/ \E c \in Conns : HandlerStep(c)

\* every thread that can take a step takes one eventually: accept() and
\* select() return after their one-second timeout at the latest
TunnelFairness ==
  /\ \A g \in Starts : WF_vars(AcceptLoopStep(g))
  /\ \A c \in Conns : WF_vars(HandlerStep(c))

(* --------------------------- SshClient.walk --------------------------- *)
\* the directory a/a/.../a of depth n
WalkChain(n) == [k \in 1..n |-> "a"]

\* The remote trees walked: a chain of nested directories, a sibling of the
\* first, and at most one file in each directory and in the root.
WalkDirs == {WalkChain(n) : n \in 1..WalkDepth} \cup {<<"c">>}

WalkFiles == {d \o <<"f">> : d \in WalkDirs \cup {<<>>}}

\* ssh.py:122  the entries listdir_attr returns for a directory
walk_entries(rdirs, rfiles, d) ==
  {e \in rdirs \cup rfiles : dirname(e) = d}

\* ssh.py:124-125  rel_path = posixpath.join(rel_base, entry.filename), or
\* entry.filename below the root
rel_path(rel_base, filename) == rel_base \o <<filename>>

walk_dirs_prepend(dirs, rel) == <<rel>> \o dirs

\* ssh.py:128  dirs.append(rel_path)
walk_dirs_add(dirs, rel) == Append(dirs, rel)

WalkInit ==
  /\ wk_rdirs \in SUBSET WalkDirs
  /\ \A d \in wk_rdirs : Len(d) > 1 => dirname(d) \in wk_rdirs
  /\ wk_rfiles \in SUBSET WalkFiles
  /\ \A f \in wk_rfiles : Len(f) > 1 => dirname(f) \in wk_rdirs
  /\ wk_bad \in SUBSET (wk_rdirs \cup {<<>>})
  /\ wk_stack = <<[dir |-> <<>>, todo |-> {}, listed |-> FALSE]>>
  /\ wk_files = <<>>
  /\ wk_dirs = <<>>
  /\ wk_pc = "walking"

WkTop == wk_stack[Len(wk_stack)]

\* a _walk_sftp call returns to its caller; the outermost to walk, which
\* returns files and dirs
WkPop ==
  /\ wk_stack' = SubSeq(wk_stack, 1, Len(wk_stack) - 1)
  /\ wk_pc' = IF Len(wk_stack) = 1 THEN "returned" ELSE "walking"

\* ssh.py:116-117  entries = sftp.listdir_attr(remote_dir)
WkList ==
  /\ UNCHANGED nonWalkVars
  /\ wk_pc = "walking"
  /\ ~WkTop.listed
  /\ WkTop.dir \notin wk_bad
  /\ wk_stack' = [wk_stack EXCEPT ![Len(wk_stack)] =
       [dir |-> WkTop.dir,
        todo |-> walk_entries(wk_rdirs, wk_rfiles, WkTop.dir),
        listed |-> TRUE]]
  /\ UNCHANGED <<wk_rdirs, wk_rfiles, wk_bad, wk_files, wk_dirs, wk_pc>>

\* ssh.py:118-120  listdir_attr raises IOError: logged, the call returns
WkListRaise ==
  /\ UNCHANGED nonWalkVars
  /\ wk_pc = "walking"
  /\ ~WkTop.listed
  /\ WkTop.dir \in wk_bad
  /\ WkPop
  /\ UNCHANGED <<wk_rdirs, wk_rfiles, wk_bad, wk_files, wk_dirs>>

\* ssh.py:122-129  the next entry is a directory: appended to dirs, then
\* walked (entries come in the order the server lists them)
WkDir ==
  /\ UNCHANGED nonWalkVars
  /\ wk_pc = "walking"
  /\ WkTop.listed
  /\ \E e \in WkTop.todo \cap wk_rdirs :
       LET rel == rel_path(WkTop.dir, e[Len(e)])
       IN /\ wk_dirs' = walk_dirs_add(wk_dirs, rel)
          /\ wk_stack' = Append(
               [wk_stack EXCEPT ![Len(wk_stack)].todo = @ \ {e}],
               [dir |-> rel, todo |-> {}, listed |-> FALSE])
  /\ UNCHANGED <<wk_rdirs, wk_rfiles, wk_bad, wk_files, wk_pc>>

\* ssh.py:122-131  the next entry is no directory: appended to files
WkFile ==
  /\ UNCHANGED nonWalkVars
  /\ wk_pc = "walking"
  /\ WkTop.listed
  /\ \E e \in WkTop.todo \cap wk_rfiles :
       /\ wk_files' = Append(wk_files, rel_path(WkTop.dir, e[Len(e)]))
       /\ wk_stack' = [wk_stack EXCEPT ![Len(wk_stack)].todo = @ \ {e}]
  /\ UNCHANGED <<wk_rdirs, wk_rfiles, wk_bad, wk_dirs, wk_pc>>

\* ssh.py:122  the for loop has no entry left: the call returns
WkLeave ==
  /\ UNCHANGED nonWalkVars
  /\ wk_pc = "walking"
  /\ WkTop.listed
  /\ WkTop.todo = {}
  /\ WkPop
  /\ UNCHANGED <<wk_rdirs, wk_rfiles, wk_bad, wk_files, wk_dirs>>

WalkNext ==
  \/ WkList
  \/ WkListRaise
  \/ WkDir
  \/ WkFile
  \/ WkLeave

(* ------------------- SshTunnel._handle_client: loop ------------------- *)
Sides == {"client", "chan"}

other(side) == IF side = "client" THEN "chan" ELSE "client"

\* the bytes each peer sends during the session, at most MaxStream of them
stream(side, n) ==
  [k \in 1..n |-> IF side = "client" THEN k ELSE 10 + k]

ForwardInit ==
  /\ fw_buf = [s \in Sides |-> <<>>]
  /\ fw_sent_by = [s \in Sides |-> 0]
  /\ fw_eof = [s \in Sides |-> FALSE]
  /\ fw_stop = FALSE
  /\ fw_pc = "check"
  /\ fw_rlist = {}
  /\ fw_data = <<>>
  /\ fw_recv = [s \in Sides |-> <<>>]
  /\ fw_out = [s \in Sides |-> <<>>]
  /\ fw_served = {}
  /\ fw_end = ""

\* a peer (the local client, or the remote service behind the channel)
\* sends its next byte
FwPeerSend(side) ==
  /\ UNCHANGED nonForwardVars
  /\ fw_pc # "done"
  /\ ~fw_eof[side]
  /\ fw_sent_by[side] < MaxStream
  /\ fw_sent_by' = [fw_sent_by EXCEPT ![side] = @ + 1]
  /\ fw_buf' = [fw_buf EXCEPT ![side] =
                  Append(@, stream(side, MaxStream)[fw_sent_by[side] + 1])]
  /\ UNCHANGED <<fw_eof, fw_stop, fw_pc, fw_rlist, fw_data, fw_recv, fw_out,
                 fw_served, fw_end>>

\* a peer closes its end
FwPeerClose(side) ==
  /\ UNCHANGED nonForwardVars
  /\ fw_pc # "done"
  /\ ~fw_eof[side]
  /\ fw_eof' = [fw_eof EXCEPT ![side] = TRUE]
  /\ UNCHANGED <<fw_buf, fw_sent_by, fw_stop, fw_pc, fw_rlist, fw_data,
                 fw_recv, fw_out, fw_served, fw_end>>

\* ssh.py:289-290  stop() sets the flag
FwStop ==
  /\ UNCHANGED nonForwardVars
  /\ fw_pc # "done"
  /\ ~fw_stop
  /\ fw_stop' = TRUE
  /\ UNCHANGED <<fw_buf, fw_sent_by, fw_eof, fw_pc, fw_rlist, fw_data,
                 fw_recv, fw_out, fw_served, fw_end>>

\* ssh.py:285-287  finally: chan.close(); client.close()
FwFinally(how) ==
  /\ fw_pc' = "done"
  /\ fw_end' = how

\* ssh.py:271  while not self._stop_event.is_set()
FwCheck ==
  /\ UNCHANGED nonForwardVars
  /\ fw_pc = "check"
  /\ IF fw_stop
       THEN FwFinally("stop")
       ELSE fw_pc' = "select" /\ UNCHANGED fw_end
  /\ fw_served' = {}
  /\ UNCHANGED <<fw_buf, fw_sent_by, fw_eof, fw_stop, fw_rlist, fw_data,
                 fw_recv, fw_out>>

\* a socket is readable when bytes wait in it or its peer has closed
readable(side) == fw_buf[side] # <<>> \/ fw_eof[side]

\* ssh.py:272  rlist, _, _ = select.select([client, chan], [], [], 1.0):
\* the readable ones, none after the timeout
FwSelect ==
  /\ UNCHANGED nonForwardVars
  /\ fw_pc = "select"
  /\ fw_rlist' = {s \in Sides : readable(s)}
  /\ fw_pc' = "client"
  /\ UNCHANGED <<fw_buf, fw_sent_by, fw_eof, fw_stop, fw_data, fw_recv,
                 fw_out, fw_served, fw_end>>

\* what recv(BUFFER_SIZE) may return: a non-empty start of what waits, of
\* at most BUFFER_SIZE bytes; nothing when the peer has closed and nothing
\* waits
recv_results(side) ==
  IF fw_buf[side] = <<>> THEN {<<>>}
  ELSE {SubSeq(fw_buf[side], 1, n) :
          n \in 1..Min(BUFFER_SIZE, Len(fw_buf[side]))}

chan_served_only_alone(rlist) == rlist = {"chan"}

\* ssh.py:280  `if chan in rlist`, after the client's part of the turn
chan_served(rlist) == "chan" \in rlist

\* whether the turn handles this side
in_turn(side) ==
  IF side = "client" THEN "client" \in fw_rlist ELSE chan_served(fw_rlist)

after(side) == IF side = "client" THEN "chan" ELSE "check"

\* ssh.py:274, 280  the side is not handled in this turn
FwSkip(side) ==
  /\ UNCHANGED nonForwardVars
  /\ fw_pc = side
  /\ ~in_turn(side)
  /\ fw_pc' = after(side)
  /\ UNCHANGED <<fw_buf, fw_sent_by, fw_eof, fw_stop, fw_rlist, fw_data,
                 fw_recv, fw_out, fw_served, fw_end>>

\* ssh.py:275-277, 281-283  data = side.recv(BUFFER_SIZE); an empty result
\* breaks out of the loop.  A readable socket with nothing waiting and no
\* close cannot occur: what was readable at select stays so until read.
FwRecv(side) ==
  /\ UNCHANGED nonForwardVars
  /\ fw_pc = side
  /\ in_turn(side)
  /\ \E d \in recv_results(side) :
       /\ fw_data' = d
       /\ fw_buf' = [fw_buf EXCEPT ![side] = SubSeq(@, Len(d) + 1, Len(@))]
       /\ fw_recv' = [fw_recv EXCEPT ![side] = @ \o d]
       /\ IF d = <<>>
            THEN FwFinally("eof")
            ELSE /\ fw_pc' = IF side = "client" THEN "client_send"
                                                ELSE "chan_send"
                 /\ UNCHANGED fw_end
  /\ fw_served' = fw_served \cup {side}
  /\ UNCHANGED <<fw_sent_by, fw_eof, fw_stop, fw_rlist, fw_out>>

\* ssh.py:275, 281  recv raises (connection reset): the exception leaves
\* the loop through the finally clause
FwRecvRaise(side) ==
  /\ UNCHANGED nonForwardVars
  /\ fw_pc = side
  /\ in_turn(side)
  /\ fw_eof[side]
  /\ FwFinally("error")
  /\ UNCHANGED <<fw_buf, fw_sent_by, fw_eof, fw_stop, fw_rlist, fw_data,
                 fw_recv, fw_out, fw_served>>

\* ssh.py:278, 284  other.sendall(data): all of data is sent
FwSend(side) ==
  /\ UNCHANGED nonForwardVars
  /\ fw_pc = (IF side = "client" THEN "client_send" ELSE "chan_send")
  /\ fw_out' = [fw_out EXCEPT ![other(side)] = @ \o fw_data]
  /\ fw_pc' = after(side)
  /\ UNCHANGED <<fw_buf, fw_sent_by, fw_eof, fw_stop, fw_rlist, fw_data,
                 fw_recv, fw_served, fw_end>>

\* ssh.py:278, 284  sendall raises because the other end is closed: a part
\* of data may have been sent; the exception leaves the loop through the
\* finally clause
FwSendRaise(side) ==
  /\ UNCHANGED nonForwardVars
  /\ fw_pc = (IF side = "client" THEN "client_send" ELSE "chan_send")
  /\ fw_eof[other(side)]
  /\ \E n \in 0..(Len(fw_data) - 1) :
       fw_out' = [fw_out EXCEPT ![other(side)] = @ \o SubSeq(fw_data, 1, n)]
  /\ FwFinally("error")
  /\ UNCHANGED <<fw_buf, fw_sent_by, fw_eof, fw_stop, fw_rlist, fw_data,
                 fw_recv, fw_served>>

ForwardNext ==
  \/ FwStop
  \/ FwCheck
  \/ FwSelect
  \/ \E side \in Sides :
       \/ FwPeerSend(side)
       \/ FwPeerClose(side)
       \/ FwSkip(side)
       \/ FwRecv(side)
       \/ FwRecvRaise(side)
       \/ FwSend(side)
       \/ FwSendRaise(side)

(* ------------- _download_via_frida under repeated losses -------------- *)
RetryInit ==
  /\ rt_pc = "enum"
  /\ rt_pid \in InitialPids
  /\ rt_procs = {}
  /\ rt_target = ""
  /\ rt_outcome = ""

\* cli.py:249-278  the try block of _download_via_frida runs to its end
RtAttemptDone ==
  /\ UNCHANGED nonRetryVars
  /\ rt_pc = "enum"
  /\ rt_pc' = "exit"
  /\ rt_outcome' = "success"
  /\ UNCHANGED <<rt_pid, rt_procs, rt_target>>

\* cli.py:280-283  an RPC call of the try block raises TransportError or
\* InvalidOperationError: the except clause calls _handle_frida_error
RtAttemptLost ==
  /\ UNCHANGED nonRetryVars
  /\ rt_pc = "enum"
  /\ rt_pc' = "handle"
  /\ UNCHANGED <<rt_pid, rt_procs, rt_target, rt_outcome>>

\* cli.py:300-305  no SSH session: _switch_to_transfer_process is called
RtHandle ==
  /\ UNCHANGED nonRetryVars
  /\ rt_pc = "handle"
  /\ rt_pc' = handler_first(FALSE)
  /\ UNCHANGED <<rt_pid, rt_procs, rt_target, rt_outcome>>

\* cli.py:404-411, 419  enumerate_processes raises, or the candidate loop
\* finds the first candidate with another PID, or falls through; without a
\* candidate cli.py:311-314 raises SystemExit
RtSwEnum ==
  /\ UNCHANGED nonRetryVars
  /\ rt_pc = "sw_enum"
  /\ \/ /\ rt_procs' = {}
        /\ rt_target' = ""
        /\ rt_pc' = after_switch(FALSE)
        /\ rt_outcome' = "failed"
     \/ \E ps \in SUBSET CandidateNames :
          /\ rt_procs' = ps
          /\ rt_target' = switch_candidate(ps, rt_pid)
          /\ IF switch_candidate(ps, rt_pid) = ""
               THEN /\ rt_pc' = after_switch(FALSE)
                    /\ rt_outcome' = "failed"
               ELSE /\ rt_pc' = "sw_attach"
                    /\ UNCHANGED rt_outcome
  /\ UNCHANGED rt_pid

\* cli.py:413-418, 306-309  detach, attach(proc.pid, retries=1); when it
\* returns, _download_via_frida is called again, with no count of the
\* calls made so far; when it raises, the error leaves the download
RtSwAttach ==
  /\ UNCHANGED nonRetryVars
  /\ rt_pc = "sw_attach"
  /\ \/ /\ rt_pid' = PidOf[rt_target]
        /\ rt_pc' = after_switch(TRUE)
        /\ UNCHANGED rt_outcome
     \/ /\ rt_pc' = "exit"
        /\ rt_outcome' = "attach_error"
        /\ UNCHANGED rt_pid
  /\ UNCHANGED <<rt_procs, rt_target>>

RetryNext ==
  \/ RtAttemptDone
  \/ RtAttemptLost
  \/ RtHandle
  \/ RtSwEnum
  \/ RtSwAttach

(* ------------- _download_via_frida: the progress counter -------------- *)
\* the valid files of the bundle
BdFiles == {"f1", "f2"}

RECURSIVE SumOver(_, _)
SumOver(size, S) ==
  IF S = {} THEN 0
  ELSE LET f == CHOOSE x \in S : TRUE
       IN size[f] + SumOver(size, S \ {f})

\* transfer.py:82-84, 92-94 and cli.py:259  bundle_total + dump_size, where
\* bundle_total got the size of every valid file once, and a second time
\* for the files of a batch that were processed before the batch failed
\* and the fallback loop went through the batch again
tracker_total(size, recount, dump) ==
  SumOver(size, BdFiles) + SumOver(size, recount) + dump

BundleInit ==
  /\ bd_size \in [BdFiles -> 0..MaxSize]
  /\ bd_recount \in SUBSET BdFiles
  /\ bd_dump_kind \in {"file", "dir"}
  /\ bd_dump_size \in 0..1
  /\ bd_chunk \in 1..MaxChunk
  /\ bd_workers \in 1..MaxWorkers
  /\ bd_total = tracker_total(bd_size, bd_recount, bd_dump_size)
  /\ bd_current = 0
  /\ bd_pc = "tree"
  /\ bd_st = [f \in BdFiles |-> "queued"]
  /\ bd_off = [f \in BdFiles |-> 0]
  /\ bd_dump_off = 0

BdActive == {f \in BdFiles : bd_st[f] = "active"}

\* transfer.py:163-166, 203-204  a unit starts on the main thread (one at
\* a time) or on an idle pool thread
BdStart(f) ==
  /\ UNCHANGED nonBundleVars
  /\ bd_pc = "tree"
  /\ bd_st[f] = "queued"
  /\ pool_thread_idle(BdActive, bd_workers)
  /\ bd_st' = [bd_st EXCEPT ![f] = "active"]
  /\ UNCHANGED <<bd_size, bd_recount, bd_dump_kind, bd_dump_size, bd_chunk,
                 bd_workers, bd_total, bd_current, bd_pc, bd_off,
                 bd_dump_off>>

\* progress.py:57-62  update(delta): current += delta under the lock,
\* nothing for delta <= 0
update_current(current, delta) ==
  IF delta <= 0 THEN current ELSE current + delta

\* transfer.py:245-253  one turn of the copy loop of a file: a read of
\* min(chunk_size, size - offset) bytes returns 1 to that many bytes (the
\* file has them), they are written and reported
BdChunk(f) ==
  /\ UNCHANGED nonBundleVars
  /\ bd_pc = "tree"
  /\ bd_st[f] = "active"
  /\ bd_off[f] < bd_size[f]
  /\ \E n \in 1..read_size(bd_chunk, bd_size[f], bd_off[f]) :
       /\ bd_off' = [bd_off EXCEPT ![f] = @ + n]
       /\ bd_current' = update_current(bd_current, n)
  /\ UNCHANGED <<bd_size, bd_recount, bd_dump_kind, bd_dump_size, bd_chunk,
                 bd_workers, bd_total, bd_pc, bd_st, bd_dump_off>>

\* transfer.py:245  offset < size is false: the copy of the file returns
BdDone(f) ==
  /\ UNCHANGED nonBundleVars
  /\ bd_pc = "tree"
  /\ bd_st[f] = "active"
  /\ bd_off[f] >= bd_size[f]
  /\ bd_st' = [bd_st EXCEPT ![f] = "ok"]
  /\ UNCHANGED <<bd_size, bd_recount, bd_dump_kind, bd_dump_size, bd_chunk,
                 bd_workers, bd_total, bd_current, bd_pc, bd_off,
                 bd_dump_off>>

\* transfer.py:247 with 199-200 and 163-173  a read raises: in the pool the
\* unit has failed and the others go on; on the main thread the error
\* leaves the tree download
BdFail(f) ==
  /\ UNCHANGED nonBundleVars
  /\ bd_pc = "tree"
  /\ bd_st[f] = "active"
  /\ bd_off[f] < bd_size[f]
  /\ bd_st' = [bd_st EXCEPT ![f] = "failed"]
  /\ bd_pc' = IF bd_workers > 1 THEN "tree" ELSE "aborted"
  /\ UNCHANGED <<bd_size, bd_recount, bd_dump_kind, bd_dump_size, bd_chunk,
                 bd_workers, bd_total, bd_current, bd_off, bd_dump_off>>

\* cli.py:261-271  pull_bundle_via_frida returns; the dump file is next
BdTreeReturn ==
  /\ UNCHANGED nonBundleVars
  /\ bd_pc = "tree"
  /\ \A f \in BdFiles : bd_st[f] \in {"ok", "failed"}
  /\ bd_pc' = "dump"
  /\ UNCHANGED <<bd_size, bd_recount, bd_dump_kind, bd_dump_size, bd_chunk,
                 bd_workers, bd_total, bd_current, bd_st, bd_off,
                 bd_dump_off>>

\* cli.py:271-277 with transfer.py:245-253  a turn of the copy loop of the
\* dump file, with size=dump_size
BdDumpChunk ==
  /\ UNCHANGED nonBundleVars
  /\ bd_pc = "dump"
  /\ bd_dump_kind = "file"
  /\ bd_dump_off < bd_dump_size
  /\ \E n \in 1..read_size(bd_chunk, bd_dump_size, bd_dump_off) :
       /\ bd_dump_off' = bd_dump_off + n
       /\ bd_current' = update_current(bd_current, n)
  /\ UNCHANGED <<bd_size, bd_recount, bd_dump_kind, bd_dump_size, bd_chunk,
                 bd_workers, bd_total, bd_pc, bd_st, bd_off>>

\* transfer.py:245, 248-249 and cli.py:278  the copy of the dump file
\* returns, at offset = size or at an empty read (a path that is no file
\* has no bytes to read), and progress.finish() follows
BdDumpEnd ==
  /\ UNCHANGED nonBundleVars
  /\ bd_pc = "dump"
  /\ bd_dump_off >= bd_dump_size \/ bd_dump_kind # "file"
  /\ bd_pc' = "finished"
  /\ UNCHANGED <<bd_size, bd_recount, bd_dump_kind, bd_dump_size, bd_chunk,
                 bd_workers, bd_total, bd_current, bd_st, bd_off,
                 bd_dump_off>>

BundleNext ==
  \/ \E f \in BdFiles :
       \/ BdStart(f)
       \/ BdChunk(f)
       \/ BdDone(f)
       \/ BdFail(f)
  \/ BdTreeReturn
  \/ BdDumpChunk
  \/ BdDumpEnd

(* ------------------------- FridaDumper.attach ------------------------- *)
\* dumper.py:104  the errors an attempt is retried after; OperationCancelled
\* comes from the timer of dumper.py:93-94, so only with a timeout
RetriedErrors(timeout) ==
  IF timeout THEN {"transport", "cancelled"} ELSE {"transport"}

AttachInit ==
  /\ at_retries \in 0..MaxRetries
  /\ at_timeout \in BOOLEAN
  /\ at_target \in {2, 3}
  /\ at_old_pid \in {0, 1}
  /\ at_pc = "loop"
  /\ at_attempt = 0
  /\ at_session = at_old_pid
  /\ at_agent = (at_old_pid # 0)
  /\ at_pid = at_old_pid
  /\ at_last_error = <<>>
  /\ at_errors = <<>>
  /\ at_raised = <<>>

\* dumper.py:87  for attempt in range(1, retries + 1)
AtLoop ==
  /\ UNCHANGED nonAttachVars
  /\ at_pc = "loop"
  /\ IF at_attempt < at_retries
       THEN /\ at_attempt' = at_attempt + 1
            /\ at_pc' = "attach"
       ELSE /\ at_pc' = "after_loop"
            /\ UNCHANGED at_attempt
  /\ UNCHANGED <<at_retries, at_timeout, at_target, at_old_pid, at_session,
                 at_agent, at_pid, at_last_error, at_errors, at_raised>>

\* dumper.py:104-107  except (TransportError, OperationCancelledError):
\* last_error = exc, sleep, next attempt
AtCaught(kind) ==
  /\ at_last_error' = <<at_attempt, kind>>
  /\ at_errors' = Append(at_errors, <<at_attempt, kind>>)
  /\ at_pc' = "loop"
  /\ UNCHANGED at_raised

\* an exception of another class leaves the loop and the call
AtUncaught ==
  /\ at_raised' = <<at_attempt, "other">>
  /\ at_errors' = Append(at_errors, <<at_attempt, "other">>)
  /\ at_pc' = "raised"
  /\ UNCHANGED at_last_error

\* dumper.py:92-98  self._session = self._device.attach(target ...)
AtDeviceAttach ==
  /\ UNCHANGED nonAttachVars
  /\ at_pc = "attach"
  /\ \/ /\ at_session' = at_target
        /\ at_agent' = FALSE
        /\ at_pc' = "load"
        /\ UNCHANGED <<at_last_error, at_errors, at_raised>>
     \/ /\ \E kind \in RetriedErrors(at_timeout) : AtCaught(kind)
        /\ UNCHANGED <<at_session, at_agent>>
     \/ /\ AtUncaught
        /\ UNCHANGED <<at_session, at_agent>>
  /\ UNCHANGED <<at_retries, at_timeout, at_target, at_old_pid, at_attempt,
                 at_pid>>

\* dumper.py:100-102  self._load_agent(); return
AtLoadAgent ==
  /\ UNCHANGED nonAttachVars
  /\ at_pc = "load"
  /\ \/ /\ at_agent' = TRUE
        /\ at_pc' = "record"
        /\ UNCHANGED <<at_last_error, at_errors, at_raised>>
     \/ /\ AtCaught("transport")
        /\ UNCHANGED at_agent
     \/ /\ AtUncaught
        /\ UNCHANGED at_agent
  /\ UNCHANGED <<at_retries, at_timeout, at_target, at_old_pid, at_attempt,
                 at_session, at_pid>>

\* dumper.py:109-110  `if last_error: raise last_error`
raises_after_loop(last_error) == last_error # <<>>

\* dumper.py:109-110  the loop has ended without a return
AtAfterLoop ==
  /\ UNCHANGED nonAttachVars
  /\ at_pc = "after_loop"
  /\ IF raises_after_loop(at_last_error)
       THEN /\ at_raised' = at_last_error
            /\ at_pc' = "raised"
       ELSE /\ at_pc' = "record"
            /\ UNCHANGED at_raised
  /\ UNCHANGED <<at_retries, at_timeout, at_target, at_old_pid, at_attempt,
                 at_session, at_agent, at_pid, at_last_error, at_errors>>

\* dumper.py:47-48  _attach_with_retries returned: self._pid = pid
AtRecord ==
  /\ UNCHANGED nonAttachVars
  /\ at_pc = "record"
  /\ at_pid' = at_target
  /\ at_pc' = "returned"
  /\ UNCHANGED <<at_retries, at_timeout, at_target, at_old_pid, at_attempt,
                 at_session, at_agent, at_last_error, at_errors, at_raised>>

AttachNext ==
  \/ AtLoop
  \/ AtDeviceAttach
  \/ AtLoadAgent
  \/ AtAfterLoop
  \/ AtRecord

(* ------------------------------ parking ------------------------------- *)
\* the state of a component while another one's specification runs
DownloadParked ==
  /\ op = "bundle"
  /\ entry = "dispatch"
  /\ ssh = FALSE
  /\ max_workers = 1
  /\ dump_size = 0
  /\ pc = "parked"
  /\ guarded = FALSE
  /\ outcome = ""
  /\ dead = FALSE
  /\ losses = 0
  /\ attached = FALSE
  /\ pid = 0
  /\ rpc_sizes = {}
  /\ st = NoUnits
  /\ pull_result = {}
  /\ walked = FALSE
  /\ ssh_files = {}
  /\ ssh_done = {}
  /\ procs = {}
  /\ target = ""
  /\ prev_pid = 0
  /\ switch_log = <<>>
  /\ late_start = FALSE
  /\ handled = 0
  /\ switches = 0

ProgressParked ==
  /\ pb_total = NoTotal
  /\ pb_current = 0
  /\ pb_enabled = FALSE
  /\ pb_last_render = 0
  /\ pb_lock = 0
  /\ pb_pc = IdleThreads
  /\ pb_delta = ZeroPerThread
  /\ pb_read = ZeroPerThread
  /\ pb_ops = MaxOps
  /\ pb_now = 0
  /\ pb_start_time = 0
  /\ pb_frames = 0
  /\ pb_newlines = 0
  /\ pb_eta = NoEta
  /\ pb_expected = 0
  /\ pb_last = "parked"

EnumParked ==
  /\ en_files = <<>>
  /\ en_batch_size = 1
  /\ en_stat = [p \in Paths |-> [exists |-> FALSE, isDir |-> FALSE,
                                  size |-> 0]]
  /\ en_pc = "parked"
  /\ en_i = 0
  /\ en_k = 0
  /\ en_sizes = NoSizes
  /\ en_total = 0
  /\ en_ret_files = <<>>
  /\ en_pull = <<>>
  /\ en_lists = 0
  /\ en_batches = <<>>
  /\ en_failed = {}
  /\ en_call_raised = {}
  /\ en_single = {}

PullParked ==
  /\ pf_caller = "direct"
  /\ pf_kind = "file"
  /\ pf_stat_size = 0
  /\ pf_chunk = 1
  /\ pf_transport = "exact"
  /\ pf_pc = "parked"
  /\ pf_size = NoSize
  /\ pf_offset = 0
  /\ pf_local = FALSE
  /\ pf_written = 0
  /\ pf_reads = <<>>
  /\ pf_progress = <<>>
  /\ pf_error = ""

TreeParked ==
  /\ tr_transport = "frida"
  /\ tr_dirs = <<>>
  /\ tr_files = {}
  /\ tr_sizes = {}
  /\ tr_workers = 1
  /\ tr_pc = "parked"
  /\ TreeFresh

SshClientParked == SshClientInit

TunnelParked == TunnelInit

WalkParked ==
  /\ wk_rdirs = {}
  /\ wk_rfiles = {}
  /\ wk_bad = {}
  /\ wk_stack = <<>>
  /\ wk_files = <<>>
  /\ wk_dirs = <<>>
  /\ wk_pc = "parked"

ForwardParked ==
  /\ fw_buf = [s \in Sides |-> <<>>]
  /\ fw_sent_by = [s \in Sides |-> 0]
  /\ fw_eof = [s \in Sides |-> FALSE]
  /\ fw_stop = FALSE
  /\ fw_pc = "parked"
  /\ fw_rlist = {}
  /\ fw_data = <<>>
  /\ fw_recv = [s \in Sides |-> <<>>]
  /\ fw_out = [s \in Sides |-> <<>>]
  /\ fw_served = {}
  /\ fw_end = ""

RetryParked ==
  /\ rt_pc = "parked"
  /\ rt_pid = 0
  /\ rt_procs = {}
  /\ rt_target = ""
  /\ rt_outcome = ""

BundleParked ==
  /\ bd_size = [f \in BdFiles |-> 0]
  /\ bd_recount = {}
  /\ bd_dump_kind = "file"
  /\ bd_dump_size = 0
  /\ bd_chunk = 1
  /\ bd_workers = 1
  /\ bd_total = 0
  /\ bd_current = 0
  /\ bd_pc = "parked"
  /\ bd_st = [f \in BdFiles |-> "queued"]
  /\ bd_off = [f \in BdFiles |-> 0]
  /\ bd_dump_off = 0

AttachParked ==
  /\ at_retries = 0
  /\ at_timeout = FALSE
  /\ at_target = 2
  /\ at_old_pid = 0
  /\ at_pc = "parked"
  /\ at_attempt = 0
  /\ at_session = 0
  /\ at_agent = FALSE
  /\ at_pid = 0
  /\ at_last_error = <<>>
  /\ at_errors = <<>>
  /\ at_raised = <<>>

(* ------------------------------- Spec --------------------------------- *)
Next ==
  \/ TransportLoss
  \/ Dispatch
  \/ RpcEnumerate
  \/ DumpStat
  \/ PullStart
  \/ SeqBegin
  \/ SeqEnd
  \/ SeqReturn
  \/ PoolStart
  \/ \E f \in Files : PoolFinish(f)
  \/ PoolReturn
  \/ PullDump
  \/ Finish
  \/ Handle
  \/ SwEnum
  \/ SwDetach
  \/ SwAttach
  \/ SshWalk
  \/ SshDirStep
  \/ SshDirReturn

Init ==
  /\ DownloadInit
  /\ ProgressParked
  /\ EnumParked
  /\ PullParked
  /\ TreeParked
  /\ SshClientParked
  /\ TunnelParked
  /\ WalkParked
  /\ ForwardParked
  /\ RetryParked
  /\ BundleParked
  /\ AttachParked

\* one BundleDownloader invocation
Spec == Init /\ [][Next]_vars

InitProgress ==
  /\ ProgressInit
  /\ DownloadParked
  /\ EnumParked
  /\ PullParked
  /\ TreeParked
  /\ SshClientParked
  /\ TunnelParked
  /\ WalkParked
  /\ ForwardParked
  /\ RetryParked
  /\ BundleParked
  /\ AttachParked

\* one ProgressBar shared by several threads
SpecProgress == InitProgress /\ [][ProgressNext]_vars

InitEnumerate ==
  /\ EnumInit
  /\ DownloadParked
  /\ ProgressParked
  /\ PullParked
  /\ TreeParked
  /\ SshClientParked
  /\ TunnelParked
  /\ WalkParked
  /\ ForwardParked
  /\ RetryParked
  /\ BundleParked
  /\ AttachParked

\* one enumerate_bundle_files call and the selection made from its result
SpecEnumerate == InitEnumerate /\ [][EnumerateNext]_vars

InitPull ==
  /\ PullInit
  /\ DownloadParked
  /\ ProgressParked
  /\ EnumParked
  /\ TreeParked
  /\ SshClientParked
  /\ TunnelParked
  /\ WalkParked
  /\ ForwardParked
  /\ RetryParked
  /\ BundleParked
  /\ AttachParked

\* one pull_file_via_frida call
SpecPull == InitPull /\ [][PullNext]_vars

\* the copy is a sequential function: it takes its next step as long as it
\* has one
SpecPullLive == SpecPull /\ WF_vars(PullNext)

InitTree ==
  /\ TreeInit
  /\ DownloadParked
  /\ ProgressParked
  /\ EnumParked
  /\ PullParked
  /\ SshClientParked
  /\ TunnelParked
  /\ WalkParked
  /\ ForwardParked
  /\ RetryParked
  /\ BundleParked
  /\ AttachParked

\* one tree download, run again into the same local directory
SpecTree == InitTree /\ [][TreeNext]_vars

InitSshClient ==
  /\ SshClientInit
  /\ DownloadParked
  /\ ProgressParked
  /\ EnumParked
  /\ PullParked
  /\ TreeParked
  /\ TunnelParked
  /\ WalkParked
  /\ ForwardParked
  /\ RetryParked
  /\ BundleParked
  /\ AttachParked

\* one SshClient called from several threads
SpecSshClient == InitSshClient /\ [][SshClientNext]_vars

InitTunnel ==
  /\ TunnelInit
  /\ DownloadParked
  /\ ProgressParked
  /\ EnumParked
  /\ PullParked
  /\ TreeParked
  /\ SshClientParked
  /\ WalkParked
  /\ ForwardParked
  /\ RetryParked
  /\ BundleParked
  /\ AttachParked

\* one SshTunnel, its accept loops and its handlers
SpecTunnel == InitTunnel /\ [][TunnelNext]_vars

\* the same, with every thread of the tunnel scheduled again and again
SpecTunnelLive == SpecTunnel /\ TunnelFairness

InitWalk ==
  /\ WalkInit
  /\ DownloadParked
  /\ ProgressParked
  /\ EnumParked
  /\ PullParked
  /\ TreeParked
  /\ SshClientParked
  /\ TunnelParked
  /\ ForwardParked
  /\ RetryParked
  /\ BundleParked
  /\ AttachParked

\* one SshClient.walk call over a remote tree
SpecWalk == InitWalk /\ [][WalkNext]_vars

InitForward ==
  /\ ForwardInit
  /\ DownloadParked
  /\ ProgressParked
  /\ EnumParked
  /\ PullParked
  /\ TreeParked
  /\ SshClientParked
  /\ TunnelParked
  /\ WalkParked
  /\ RetryParked
  /\ BundleParked
  /\ AttachParked

\* one forwarding session of the tunnel
SpecForward == InitForward /\ [][ForwardNext]_vars

InitRetry ==
  /\ RetryInit
  /\ DownloadParked
  /\ ProgressParked
  /\ EnumParked
  /\ PullParked
  /\ TreeParked
  /\ SshClientParked
  /\ TunnelParked
  /\ WalkParked
  /\ ForwardParked
  /\ BundleParked
  /\ AttachParked

\* download_bundle over RPC with the transport lost again and again
SpecRetry == InitRetry /\ [][RetryNext]_vars

\* the main thread takes its next step as long as it has one
SpecRetryLive == SpecRetry /\ WF_vars(RetryNext)

InitBundle ==
  /\ BundleInit
  /\ DownloadParked
  /\ ProgressParked
  /\ EnumParked
  /\ PullParked
  /\ TreeParked
  /\ SshClientParked
  /\ TunnelParked
  /\ WalkParked
  /\ ForwardParked
  /\ RetryParked
  /\ AttachParked

\* the progress counter of one RPC bundle download
SpecBundle == InitBundle /\ [][BundleNext]_vars

InitAttach ==
  /\ AttachInit
  /\ DownloadParked
  /\ ProgressParked
  /\ EnumParked
  /\ PullParked
  /\ TreeParked
  /\ SshClientParked
  /\ TunnelParked
  /\ WalkParked
  /\ ForwardParked
  /\ RetryParked
  /\ BundleParked

\* one FridaDumper.attach call
SpecAttach == InitAttach /\ [][AttachNext]_vars

(* ============================== claims ================================ *)
Lost == {f \in Files : st[f] = "lost"}
SchedulerOver == pc \in {"pull_dump", "finish", "exit"}
AttachCalls == {k \in 1..Len(switch_log) : switch_log[k] = "attach"}
AttachRaised == Len(switch_log) = 4 /\ switch_log[4] = "raise"
\* the current switch has selected its candidate, and what it selected from
\* is still in procs and prev_pid
Selected == target # "" /\ prev_pid # 0 /\ Len(switch_log) >= 1
SwitchFoundNothing == switch_log = <<"enumerate_processes">> /\ target = ""
AllReturned == \A t \in Threads : pb_pc[t] = "idle"

\* C1: in download_bundle over RPC, once a file transfer of the tree
\* download has raised a transport error the scheduler has stopped (the
\* error left it and control is in the fallback handler) and no unit was
\* started after the failure.
C1_TransportErrorLeavesScheduler ==
  (op = "bundle" /\ Lost # {}) => (pc = "handle" /\ ~late_start)

\* C2: when a tree download in which some unit failed with a per-file
\* error (and none with a transport error) is over, every other valid file
\* has been attempted and has completed, on the pooled and on the
\* sequential path.
C2_FailureIsolated ==
  (SchedulerOver /\ Lost = {} /\ (\E f \in Files : st[f] = "failed"))
    => \A g \in valid_files(rpc_sizes) : st[g] \in {"ok", "failed"}

\* C3: after the tree download has returned, its caller holds exactly the
\* set of relative paths whose transfer failed.
C3_FailuresReturned ==
  (pc \in {"pull_dump", "finish"} \/ outcome = "done")
    => pull_result = failed_paths

\* C4: the candidate a switch selects is the first name of the fixed order
\* that is in the process list with a PID other than the attached one; the
\* detach call precedes the attach call; a switch that went on from its
\* selection made exactly one attach call.
C4_SwitchTarget ==
  /\ Selected =>
       \E i \in 1..Len(candidates) :
         /\ candidates[i] = target
         /\ target \in procs
         /\ PidOf[target] # prev_pid
         /\ \A j \in 1..(i - 1) :
              ~(candidates[j] \in procs /\ PidOf[candidates[j]] # prev_pid)
  /\ \A k \in AttachCalls : \E j \in 1..(k - 1) : switch_log[j] = "detach"
  /\ Cardinality(AttachCalls) <= 1
  /\ (Selected /\ pc \notin {"sw_detach", "sw_attach"})
       => Cardinality(AttachCalls) = 1

\* C4 witness: SpringBoard is listed but is the attached process, so the
\* switch has passed it over, detached and attached to launchd.
C4_Witness ==
  /\ Selected
  /\ "SpringBoard" \in procs
  /\ PidOf["SpringBoard"] = prev_pid
  /\ "backboardd" \notin procs
  /\ target = "launchd"
  /\ switch_log = <<"enumerate_processes", "detach", "attach">>
  /\ pid = PidOf["launchd"]

\* C5: a download without SSH in which a call was lost to the transport
\* ends successfully only after a switch and a full retry, so that the
\* successful end holds no unit lost to the transport.
C5_LossIsRetried ==
  (outcome = "done" /\ ~ssh) => Lost = {}

\* C6: when the switch found no candidate (none listed with another PID,
\* or the process list could not be enumerated) the invocation has ended
\* with the retry instruction and takes no further step: no enumeration, no
\* read, no attach.
C6_NoCandidateIsFatal ==
  SwitchFoundNothing =>
    (~ssh /\ pc = "exit" /\ outcome = "failed" /\ ~ENABLED Next)

\* C6 witness: SpringBoard is the only candidate listed and it is the
\* attached process; the invocation ended Failed.
C6_Witness ==
  /\ SwitchFoundNothing
  /\ procs = {"SpringBoard"}
  /\ prev_pid = PidOf["SpringBoard"]
  /\ outcome = "failed"
  /\ handled = 1

\* C7: a download that ended because the attach attempt of the switch
\* failed ended in the same Failed outcome as when no candidate is found.
C7_AttachFailureIsFailed ==
  (pc = "exit" /\ AttachRaised) => outcome = "failed"

\* C8: after an RPC failure with SSH configured nothing is done over RPC
\* any more; the SSH transfer starts only after a walk made since the
\* failure, and every entry it transfers is an entry of the manifest that
\* walk built, never one of the RPC manifest.
C8_SshUsesOwnManifest ==
  /\ \A e \in ssh_done : e[1] = "ssh" /\ e[2] \in ssh_files
  /\ (pc = "ssh_dir" \/ ssh_done # {}) => walked
  /\ (ssh /\ handled > 0) =>
       pc \in {"handle", "ssh_walk", "ssh_dir", "finish", "exit"}

\* C8 witness: the RPC attempt built a manifest and failed, the SSH walk
\* built a different one, and the SSH download completed.
C8_Witness ==
  /\ ssh
  /\ handled = 1
  /\ outcome = "done"
  /\ rpc_sizes # {}
  /\ ssh_files # rpc_sizes
  /\ ssh_done = {<<"ssh", f>> : f \in ssh_files}
  /\ ssh_done # {}

\* C9: once every update call has returned, current is the sum of the
\* positive deltas passed; deltas <= 0 have added nothing.
C9_NoLostUpdate ==
  AllReturned => pb_current = pb_expected

\* C9 witness: every call of the run has been made, several updates have
\* added to current, and the last call was an update with a delta <= 0.
C9_Witness ==
  /\ AllReturned
  /\ pb_ops = MaxOps
  /\ pb_expected >= 3
  /\ pb_current > 0
  /\ pb_last = "update_ignored"

\* C10: current never decreases and only a step of update changes it;
\* set_total changes nothing but total; render and finish leave current
\* and total as they are.
C10_CurrentMonotonic ==
  [][/\ pb_current' >= pb_current
     /\ (pb_current' # pb_current => pb_last' = "update")
     /\ (pb_last' = "set_total"
           => UNCHANGED <<pb_current, pb_enabled, pb_last_render, pb_frames,
                          pb_newlines, pb_eta, pb_lock, pb_now>>)
     /\ (pb_last' \in {"render", "render_forced", "finish"}
           => UNCHANGED <<pb_current, pb_total>>)]_vars

\* C10 witness: set_total has just run on a bar that has progress and has
\* written a frame.
C10_Witness ==
  /\ pb_last = "set_total"
  /\ pb_current > 0
  /\ pb_frames > 0
  /\ pb_total = 3

\* C11: a written frame carries no ETA when transferred = 0, when
\* transferred >= total or when total is unknown or 0; a frame that carries
\* one was written with transferred/total between 1% and 100%, and its ETA
\* is elapsed * (total / transferred) - elapsed (in whole ms), never
\* negative.
C11_EtaOnlyInRange ==
  [][pb_frames' # pb_frames =>
       LET cur == pb_current'
           tot == pb_total'
           el  == pb_now' - pb_start_time'
       IN /\ (tot \in {NoTotal, 0} \/ cur = 0 \/ cur >= tot)
               => pb_eta' = NoEta
          /\ pb_eta' # NoEta =>
               /\ 100 * cur >= tot
               /\ cur <= tot
               /\ pb_eta' >= 0
               /\ (pb_eta' + el) * cur <= el * tot
               /\ el * tot < (pb_eta' + el + 1) * cur]_vars

\* C11 witness: an update has just written a frame with a positive ETA,
\* two thirds of the way through.
C11_Witness ==
  /\ pb_last = "update"
  /\ AllReturned
  /\ pb_last_render = pb_now
  /\ pb_total = 3
  /\ pb_current = 2
  /\ pb_eta > 0

\* C12: a frame written by a render that is not forced (update, render())
\* comes at least 100 ms after the last written frame, forced or not; on a
\* terminal a forced render (finish, render(force)) always writes a frame;
\* every written frame records its time as the time of the last frame.
C12_RateLimited ==
  [][/\ (pb_frames' # pb_frames /\ pb_last' \in {"update", "render"})
          => pb_now - pb_last_render >= RateLimitMs
     /\ (pb_enabled /\ pb_last' \in {"finish", "render_forced"})
          => pb_frames' = pb_frames + 1
     /\ pb_frames' # pb_frames => pb_last_render' = pb_now]_vars

\* C12 witness: on a terminal an update has just completed less than
\* 100 ms after the last frame and has written none.
C12_Witness ==
  /\ pb_enabled
  /\ AllReturned
  /\ pb_last = "update"
  /\ pb_frames >= 1
  /\ pb_now - pb_last_render > 0
  /\ pb_now - pb_last_render < RateLimitMs

\* C13: when stdout is no terminal nothing has been written, no frame and
\* no line terminator, whatever was called; the counter still holds the
\* sum of the deltas passed to update.
C13_SilentWithoutTerminal ==
  ~pb_enabled =>
    /\ pb_frames = 0
    /\ pb_newlines = 0
    /\ pb_eta = NoEta
    /\ AllReturned => pb_current = pb_expected

\* C13 witness: without a terminal, updates have added to the counter and
\* finish has just been called.
C13_Witness ==
  /\ ~pb_enabled
  /\ pb_last = "finish"
  /\ pb_current > 1
  /\ pb_ops = MaxOps

\* helpers of the enumeration claims
EnReturned == en_pc \in {"returned", "selected"}

\* list positions of the batch that starts at position b
BatchPositions(b) ==
  {k \in 1..Len(en_files) : b <= k /\ k < b + en_batch_size}

IsFile(rel) == en_stat[rel].exists /\ ~en_stat[rel].isDir

\* the manifest classifies list position k as its stat says
Classified(k) ==
  LET rel == en_files[k]
  IN /\ (rel \in DOMAIN en_sizes) <=> IsFile(rel)
     /\ rel \in DOMAIN en_sizes => en_sizes[rel] = en_stat[rel].size

RECURSIVE SumSizes(_, _)
SumSizes(sizes, dom) ==
  IF dom = {} THEN 0
  ELSE LET p == CHOOSE q \in dom : TRUE
       IN sizes[p] + SumSizes(sizes, dom \ {p})

\* C14: when enumerate_bundle_files returns, every path of a batch whose
\* stat_paths call raised has been stat'd by a stat_path call of its own
\* and is in the size manifest, with the size of its stat, exactly when
\* its stat says it exists and is no directory.
C14_FallbackClassifies ==
  EnReturned =>
    \A b \in en_call_raised : \A k \in BatchPositions(b) :
      k \in en_single /\ Classified(k)

\* C14 witness: the one batch's call raised; the fallback put the file
\* a/f1 into the manifest and left the directory a/b/f2 out.
C14_Witness ==
  /\ en_pc = "returned"
  /\ en_files = <<"a/f1", "a/b/f2">>
  /\ en_batch_size = 2
  /\ en_call_raised = {1}
  /\ en_single = {1, 2}
  /\ en_stat["a/b/f2"].isDir
  /\ DOMAIN en_sizes = {"a/f1"}
  /\ en_sizes["a/f1"] = 100

\* C15: the tree is listed once; the stat_paths calls cover the list in
\* consecutive batches of at most batch_stat_size paths, one call per
\* batch; stat_path is called only for paths of a batch that failed; and
\* on return the paths of the batches that did not fail are in the manifest
\* as their stat says, whatever happened to other batches.
C15_BatchedOnce ==
  /\ en_lists <= 1
  /\ en_pc \notin {"list", "parked"} => en_lists = 1
  /\ \A j \in 1..Len(en_batches) :
       en_batches[j] = <<(j - 1) * en_batch_size + 1,
                         IF j * en_batch_size <= Len(en_files)
                           THEN j * en_batch_size ELSE Len(en_files)>>
  /\ EnReturned =>
       Len(en_batches) = (Len(en_files) + en_batch_size - 1) \div en_batch_size
  /\ \A k \in en_single : \E b \in en_failed : k \in BatchPositions(b)
  /\ EnReturned =>
       \A j \in 1..Len(en_batches) :
         en_batches[j][1] \notin en_failed =>
           \A k \in BatchPositions(en_batches[j][1]) : Classified(k)

\* C15 witness: dirs a, a/b with a/f1 = 100 and a/b/f2 = 50 in batches of
\* one path; the second batch failed and was stat'd per path, the entry of
\* the first batch is still there, and the total is 150.
C15_Witness ==
  /\ en_pc = "returned"
  /\ en_files = <<"a/f1", "a/b/f2">>
  /\ en_batch_size = 1
  /\ en_batches = <<(<<1, 1>>), (<<2, 2>>)>>
  /\ en_failed = {2}
  /\ en_single = {2}
  /\ DOMAIN en_sizes = Paths
  /\ en_sizes["a/f1"] = 100
  /\ en_sizes["a/b/f2"] = 50
  /\ en_total = 150

\* C16: whenever enumerate_bundle_files returns, the total it reports is
\* the sum of the sizes in the manifest it returns.
C16_TotalIsSum ==
  EnReturned => en_total = SumSizes(en_sizes, DOMAIN en_sizes)

\* C17: a listed path whose stat says it does not exist or is a directory
\* is not in the manifest; the file list is returned as it was listed; the
\* tree download selects for transfer exactly the listed paths that are
\* files, in list order, and none of the others.
C17_ManifestFilters ==
  /\ EnReturned => en_ret_files = en_files
  /\ EnReturned =>
       \A k \in 1..Len(en_files) :
         ~IsFile(en_files[k]) => en_files[k] \notin DOMAIN en_sizes
  /\ en_pc = "selected" =>
       en_pull = SelectSeq(en_ret_files, LAMBDA f : IsFile(f))

\* C17 witness: a/f1 does not exist, a/b/f2 is a file: the returned list
\* holds both, the manifest and the selection only a/b/f2.
C17_Witness ==
  /\ en_pc = "selected"
  /\ en_ret_files = <<"a/f1", "a/b/f2">>
  /\ ~en_stat["a/f1"].exists
  /\ DOMAIN en_sizes = {"a/b/f2"}
  /\ en_pull = <<"a/b/f2">>
  /\ en_failed = {}

\* C18: on a transport whose reads return what was asked, the reads of a
\* file of expected size S with chunk size C are at offsets 0, C, 2C, ...,
\* each of min(C, S - offset) bytes; a completed copy has written S bytes
\* in ceil(S / C) reads, with one progress update per read; for S = 0 it
\* has made no read and no progress update.
C18_ExactCopy ==
  (pf_transport = "exact" /\ pf_kind = "file" /\ pf_size # NoSize) =>
    /\ \A j \in 1..Len(pf_reads) :
         /\ pf_reads[j][1] = (j - 1) * pf_chunk
         /\ pf_reads[j][2] = IF pf_chunk <= pf_size - pf_reads[j][1]
                               THEN pf_chunk ELSE pf_size - pf_reads[j][1]
         /\ pf_reads[j][3] = pf_reads[j][2]
    /\ pf_pc = "done" =>
         /\ pf_local
         /\ pf_written = pf_size
         /\ Len(pf_reads) = (pf_size + pf_chunk - 1) \div pf_chunk
         /\ Len(pf_progress) = Len(pf_reads)
    /\ (pf_pc = "done" /\ pf_size = 0) =>
         pf_reads = <<>> /\ pf_progress = <<>>

\* C18 witness: 3 bytes copied in chunks of 2: a read of 2 at offset 0 and
\* a read of 1 at offset 2.
C18_Witness ==
  /\ pf_pc = "done"
  /\ pf_transport = "exact"
  /\ pf_kind = "file"
  /\ pf_size = 3
  /\ pf_chunk = 2
  /\ pf_reads = <<(<<0, 2, 2>>), (<<2, 1, 1>>)>>
  /\ pf_written = 3
  /\ pf_progress = <<2, 1>>

\* C19: a read that returned fewer bytes than asked, or none, is the last
\* read of the copy, and the copy does not end with an error because of it.
C19_ShortReadStops ==
  \A j \in 1..Len(pf_reads) :
    pf_reads[j][3] < pf_reads[j][2] => (j = Len(pf_reads) /\ pf_pc = "done")

\* C20: a single-file transfer never completes for a remote path that does
\* not exist or is a directory; unless the local file could not be opened,
\* it ends with the not-found error for the first and the is-directory
\* error for the second.
C20_NoSuccessForNonFile ==
  /\ pf_pc = "done" => pf_kind = "file"
  /\ (pf_pc = "raised" /\ pf_kind = "missing" /\ pf_error # "io")
       => pf_error = "not_found"
  /\ (pf_pc = "raised" /\ pf_kind = "dir" /\ pf_error # "io")
       => pf_error = "is_directory"

TrValid == tree_valid_files(tr_transport, tr_files, tr_sizes)

TrStarted == {f \in FileUniverse : tr_st[f] \in {"active", "ok", "failed"}}

\* C21: at no time are more transfers of the tree download active than
\* max_workers.
C21_PoolBounded ==
  Cardinality(TrActive) <= tr_workers

\* C21 witness: three files submitted to a pool of two threads: two are
\* active and the third waits.
C21_Witness ==
  /\ tr_pc = "pool"
  /\ tr_workers = 2
  /\ Cardinality(TrActive) = 2
  /\ Cardinality(TrQueued) = 1

\* C22: with max_workers <= 1 or at most one valid file (and always over
\* SFTP) the pool is not used, at most one transfer is active, and while a
\* file is active every valid file before it in the list has finished and
\* every one after it has not started; between transfers the finished
\* files are a prefix of the list.
C22_SequentialInOrder ==
  (tr_transport = "ssh" \/ tr_workers <= 1 \/ Cardinality(TrValid) <= 1) =>
    /\ tr_pc # "pool"
    /\ Cardinality(TrActive) <= 1
    /\ \A f \in TrActive : \A g \in TrValid :
         /\ FileOrder(g) < FileOrder(f) => tr_st[g] = "ok"
         /\ FileOrder(g) > FileOrder(f) => tr_st[g] = "queued"
    /\ \A f, g \in TrValid :
         (FileOrder(g) < FileOrder(f) /\ f \in TrStarted) => tr_st[g] = "ok"

\* C22 witness: max_workers = 1 over RPC and a list of three valid files:
\* the second is active, the first has finished, the third has not
\* started.
C22_Witness ==
  /\ tr_transport = "frida"
  /\ tr_workers = 1
  /\ tr_pc = "seq"
  /\ tr_st[<<"a", "f">>] = "ok"
  /\ tr_st[<<"a", "b", "g">>] = "active"
  /\ tr_st[<<"x", "h">>] = "queued"

C24_DirsBeforeFiles ==
  /\ \A i, j \in 1..Len(tr_made) :
       i < j => path_len(tr_made[i]) <= path_len(tr_made[j])
  /\ TrStarted # {} => Range(tr_made) = Range(tr_dirs)
  /\ \A j \in 1..Len(tr_made) : \A a \in Range(tr_dirs) :
       IsAncestor(a, tr_made[j]) => \E i \in 1..(j - 1) : tr_made[i] = a
  /\ \A f \in TrStarted : \A a \in Range(tr_dirs) :
       IsAncestor(a, f) => (a \in Range(tr_made) /\ a \in tr_ldirs)

\* C24 witness: the directories were passed child first; they have been
\* made parent first and two pool threads are copying.
C24_Witness ==
  /\ tr_dirs = << <<"a", "b">>, <<"dddd">>, <<"a">> >>
  /\ tr_made = << <<"a">>, <<"a", "b">>, <<"dddd">> >>
  /\ tr_pc = "pool"
  /\ Cardinality(TrActive) = 2

\* C25 as stated: when no transport call failed, the local files after
\* the tree download returned are exactly the file paths passed.
C25_CreatedEqualsPassed ==
  (tr_pc = "returned" /\ ~tr_failed) => LocalFiles = tr_files

\* C25: when no transport call failed, the local files after the tree
\* download returned are exactly the passed file paths that the transport
\* transfers: over RPC those with an entry in sizes, over SFTP all.
C25_CreatedEqualsValid ==
  (tr_pc = "returned" /\ ~tr_failed) =>
    LocalFiles = IF tr_transport = "frida" THEN tr_files \cap tr_sizes
                 ELSE tr_files

\* C25 witness: three paths passed over RPC with two workers, one of them
\* without a size; the other two exist locally after the return.
C25_Witness ==
  /\ tr_pc = "returned"
  /\ ~tr_failed
  /\ tr_transport = "frida"
  /\ tr_workers = 2
  /\ tr_files = FileUniverse
  /\ tr_sizes = {<<"a", "f">>, <<"a", "b", "g">>}
  /\ LocalFiles = tr_sizes

\* C26: when no transport call failed, a later run into the same local
\* directory raises no local error, and when it has returned the local
\* directories and file contents are those left by the first run.
C26_Idempotent ==
  (tr_run >= 2 /\ ~tr_failed) =>
    /\ tr_pc # "local_error"
    /\ tr_pc = "returned" => LocalTree = tr_first

\* C26 witness: the second run over three directories and three files has
\* returned with the tree of the first run.
C26_Witness ==
  /\ tr_run = 2
  /\ tr_pc = "returned"
  /\ ~tr_failed
  /\ Len(tr_dirs) = 3
  /\ tr_files = FileUniverse
  /\ tr_lfiles[<<"a", "b", "g">>] = <<2, 2>>
  /\ LocalTree = tr_first

\* C27: between two close() calls at most one SFTP channel is opened,
\* open_sftp is called again only after a call of it raised, every sftp
\* access that returns returns that one channel, and it stays the
\* client's channel until close().
C27_OneChannel ==
  /\ Cardinality(sc_opened) <= 1
  /\ sc_open_calls <= 1 + sc_open_errs
  /\ Cardinality(sc_ret) <= 1
  /\ sc_ret \subseteq sc_opened
  /\ sc_sftp # 0 => sc_opened = {sc_sftp}

\* C27 witness: both threads have accessed sftp on the connected client;
\* open_sftp was called once and both hold the same channel.
C27_Witness ==
  /\ sc_client # 0
  /\ sc_open_calls = 1
  /\ \A t \in Threads : sc_res[t] = "channel" /\ sc_got[t] = sc_sftp
  /\ sc_sftp # 0

\* C28: close() calls close on the SFTP channel, if there is one, and on
\* the connection, and leaves both references None, also when a close
\* raises; it ends without an error whether or not anything was open; no
\* channel is kept without a connection, and an sftp access on the closed
\* client ends with the not-connected error and opens nothing.
C28_CloseClearsBoth ==
  /\ [](sc_client = 0 => sc_sftp = 0)
  /\ [][\A t \in Threads :
          /\ (sc_pc[t] = "close_sftp" /\ sc_pc'[t] # "close_sftp") =>
               /\ sc_pc'[t] = "close_client"
               /\ sc_sftp' = 0
               /\ sc_sftp # 0 => sc_sftp \in sc_chan_closed'
          /\ (sc_pc[t] = "close_client" /\ sc_pc'[t] # "close_client") =>
               /\ sc_res'[t] = "closed"
               /\ sc_sftp' = 0
               /\ sc_client' = 0
               /\ sc_chan_closed' = 1..sc_chans
               /\ sc_conn_closed' = 1..sc_conns
          /\ (sc_pc[t] = "sftp_open" /\ sc_client = 0
                /\ sc_pc'[t] # "sftp_open") =>
               /\ sc_res'[t] = "not_connected"
               /\ sc_chans' = sc_chans
               /\ sc_sftp' = 0]_vars

\* C28 witness: a close of the channel or the connection raised; both
\* have been closed and cleared, a close() has ended normally and a later
\* sftp access was refused.
C28_Witness ==
  /\ sc_close_raised
  /\ sc_client = 0
  /\ sc_sftp = 0
  /\ sc_chan_closed = {1}
  /\ sc_conn_closed = {1}
  /\ sc_res[1] = "not_connected"
  /\ sc_res[2] = "closed"

\* C29: no two connections have the same channel, a handler is in its
\* forwarding loop exactly while it has the channel it opened, and the
\* channel of a connection is set once, by its own handler before the
\* loop, and cleared only when that handler ends.
C29_OwnChannel ==
  /\ [](\A c1, c2 \in Conns :
          (h_chan[c1] # 0 /\ h_chan[c1] = h_chan[c2]) => c1 = c2)
  /\ [](\A c \in Conns : h_pc[c] \in {"check", "select"} <=> h_chan[c] # 0)
  /\ [][\A c \in Conns :
          h_chan'[c] # h_chan[c] =>
            \/ h_chan[c] = 0 /\ h_pc[c] = "start"
            \/ h_chan'[c] = 0 /\ h_pc'[c] = "done"]_vars

\* C29 witness: two connections are being forwarded at the same time, each
\* over a channel of its own.
C29_Witness ==
  /\ h_pc[1] = "select"
  /\ h_pc[2] = "select"
  /\ h_chan[1] # 0
  /\ h_chan[2] # 0
  /\ h_chan[1] # h_chan[2]

\* C30: every accept loop and every handler that is running when stop()
\* is called terminates.
C30_StopTerminates ==
  /\ \A g \in Starts : al_stopped[g] ~> (al_pc[g] \notin AlRunning)
  /\ \A c \in Conns : h_stopped[c] ~> (h_pc[c] \notin HRunning)

RECURSIVE SumSeq(_)
SumSeq(q) == IF q = <<>> THEN 0 ELSE q[1] + SumSeq(Tail(q))

\* C31: between the turns of the copy loop and when the copy has ended, the
\* deltas reported to the progress tracker add up to the bytes written to
\* the local file; a chunk is reported after it was written: in between,
\* the written bytes are ahead of the reported ones by that chunk, and the
\* reported bytes are never ahead.
C31_ReportedIsWritten ==
  /\ pf_pc # "update" => SumSeq(pf_progress) = pf_written
  /\ pf_pc = "update" => pf_written = SumSeq(pf_progress) + chunk_len
  /\ pf_pc = "write" => Len(pf_progress) = Len(pf_reads) - 1

\* C31 witness: a short chunk of 1 byte (2 were asked), then a chunk of 2
\* bytes, both written and reported.
C31_Witness ==
  /\ pf_pc = "loop"
  /\ pf_size = 3
  /\ pf_reads = <<(<<0, 2, 1>>), (<<1, 2, 2>>)>>
  /\ pf_written = 3
  /\ pf_progress = <<1, 2>>

PfEnded == pf_pc \in {"done", "raised"}

\* C32: a file copy ends (in completion, truncation or an error), whatever
\* the size, the chunk size and the read results: every read after the
\* first is at a larger offset than the one before, at most `size` reads
\* return a chunk that is not empty, and an empty chunk ends the copy.
C32_CopyTerminates ==
  /\ <>PfEnded
  /\ [](\A j \in 1..Len(pf_reads) :
          /\ j > 1 => pf_reads[j][1] > pf_reads[j - 1][1]
          /\ pf_reads[j][1] < pf_size
          /\ (pf_reads[j][3] = 0 /\ j = Len(pf_reads)) => pf_pc = "done")
  /\ [](Cardinality({j \in 1..Len(pf_reads) : pf_reads[j][3] > 0})
          <= Max2(pf_size, 0))

\* C32 witness: a copy of 3 bytes that ended after three reads of one byte.
C32_Witness ==
  /\ pf_pc = "done"
  /\ pf_size = 3
  /\ Len(pf_reads) = 3
  /\ \A j \in 1..3 : pf_reads[j][3] = 1
  /\ pf_offset = 3

\* the directories a walk finds: those reached from the root through
\* directories that could be listed
WkReached(p) ==
  \A k \in 0..(Len(p) - 1) : SubSeq(p, 1, k) \notin wk_bad

\* C33: in the manifest of SshClient.walk every ancestor directory of every
\* file and of every directory is in dirs, and a directory comes in dirs
\* before its descendants; a subdirectory whose listing fails is in dirs
\* and has nothing below it in the manifest, and what is next to it is
\* walked: the walk returns all that can be reached through listable
\* directories, each once.
C33_WalkAncestors ==
  /\ \A i \in 1..Len(wk_files) : \A k \in 1..(Len(wk_files[i]) - 1) :
       SubSeq(wk_files[i], 1, k) \in Range(wk_dirs)
  /\ \A i \in 1..Len(wk_dirs) : \A k \in 1..(Len(wk_dirs[i]) - 1) :
       \E j \in 1..(i - 1) : wk_dirs[j] = SubSeq(wk_dirs[i], 1, k)
  /\ \A i, j \in 1..Len(wk_dirs) : IsAncestor(wk_dirs[i], wk_dirs[j]) => i < j
  /\ \A d \in wk_bad : \A p \in Range(wk_files) \cup Range(wk_dirs) :
       ~IsAncestor(d, p)
  /\ wk_pc = "returned" =>
       /\ Range(wk_dirs) = {d \in wk_rdirs : WkReached(d)}
       /\ Range(wk_files) = {f \in wk_rfiles : WkReached(f)}
       /\ Len(wk_dirs) = Cardinality(Range(wk_dirs))
       /\ Len(wk_files) = Cardinality(Range(wk_files))

\* C33 witness: the listing of a fails; a is in dirs with nothing below it,
\* its sibling c and the file in c are in the manifest.
C33_Witness ==
  /\ wk_pc = "returned"
  /\ wk_rdirs = {<<"a">>, <<"a", "a">>, <<"c">>}
  /\ wk_rfiles = {<<"f">>, <<"a", "f">>, <<"c", "f">>}
  /\ wk_bad = {<<"a">>}
  /\ wk_dirs = <<(<<"a">>), (<<"c">>)>>
  /\ Range(wk_files) = {<<"f">>, <<"c", "f">>}

IsPrefix(a, b) == Len(a) <= Len(b) /\ SubSeq(b, 1, Len(a)) = a

\* the chunk received from a side and not yet sent on
FwHeld(side) ==
  IF fw_pc = (IF side = "client" THEN "client_send" ELSE "chan_send")
    THEN fw_data ELSE <<>>

\* C34: in a forwarding session the bytes sent to the channel are the bytes
\* received from the local socket and the bytes sent to the local socket
\* are those received from the channel, in receive order, none lost and
\* none twice (a chunk held between its recv and its sendall, or cut short
\* by a sendall that raised, is the only difference); what is received is
\* what the peer sent, in order; a turn of the loop serves every side that
\* select reported readable, so neither direction waits for the other to
\* fall silent; an empty read ends the session.
C34_ForwardInOrder ==
  /\ \A s \in Sides :
       /\ IsPrefix(fw_recv[s], stream(s, MaxStream))
       /\ IsPrefix(fw_out[other(s)], fw_recv[s])
       /\ fw_end # "error" => fw_recv[s] = fw_out[other(s)] \o FwHeld(s)
  /\ fw_pc = "check" => fw_rlist \subseteq fw_served
  /\ (fw_served # {} /\ fw_data = <<>>) => (fw_pc = "done" /\ fw_end = "eof")
  /\ fw_end = "eof" => \E s \in Sides : fw_eof[s] /\ fw_buf[s] = <<>>

\* C34 witness: one turn of the loop has forwarded two bytes to the channel
\* and one byte to the local socket.
C34_Witness ==
  /\ fw_pc = "check"
  /\ fw_served = Sides
  /\ fw_out["chan"] = <<1, 2>>
  /\ fw_out["client"] = <<11>>
  /\ fw_buf["chan"] = <<12>>

\* the handler of connection c has ended
HEnded(c) == h_pc[c] \in {"done", "crashed"}

\* the accepted socket of connection c has not been closed: its handler is
\* still at work, or ended on the exception of ssh.py:258, which no try
\* statement covers
HSockOpen(c) == h_pc[c] \in HRunning \cup {"crashed"}

\* C35: when the handler of an accepted connection has ended, its local
\* socket and its channel are closed, whichever way it ended.
C35_ClosedOnEveryPath ==
  \A c \in Conns : HEnded(c) => (~HSockOpen(c) /\ h_chan[c] = 0)

\* C38: an accept loop that was running when stop() was called does not
\* wait for connections on a listening socket that is open, and the accept
\* loops running that no stop() has told to end are at most the one of the
\* latest start().
C38_OldLoopNeverAccepts ==
  /\ \A g \in Starts :
       (al_stopped[g] /\ al_pc[g] = "accept") => srv_closed(al_srv[g])
  /\ \A g \in Starts :
       (al_pc[g] \in AlRunning /\ ~al_stopped[g]) => g = tn_starts

\* C36: a download_bundle invocation over RPC ends, in success or in a
\* failure, however often the transport is lost: the switches to a
\* transfer process do not go on for ever.
C36_SwitchesBounded == <>(rt_pc = "exit")

\* C37: with an SSH session in the device context, download_bundle and
\* download_sandbox are never at an RPC call (enumeration, stat of the dump
\* file, tree or file transfer over RPC): no RPC manifest, no unit of an
\* RPC scheduler, no frida except clause entered, no switch.
C37_SshFromFirstStep ==
  (ssh /\ entry = "dispatch") =>
    /\ pc \in {"start", "ssh_walk", "ssh_dir", "finish", "exit"}
    /\ rpc_sizes = {}
    /\ st = NoUnits
    /\ handled = 0
    /\ switches = 0
    /\ ~guarded

\* C37 witness: a download dispatched with SSH configured has ended after
\* transferring the entries of the SSH walk.
C37_Witness ==
  /\ ssh
  /\ entry = "dispatch"
  /\ outcome = "done"
  /\ walked
  /\ ssh_done # {}
  /\ handled = 0

\* every transfer of the download has returned without an error
BdAllSucceeded ==
  bd_pc = "finished" /\ \A f \in BdFiles : bd_st[f] = "ok"

\* the counter never exceeds the total (the first half of C39)
BdNeverExceeds == bd_current <= bd_total

\* C39: in an RPC bundle download from a static remote the progress
\* counter never exceeds the total the tracker was given, whatever the
\* interleaving of the workers, and it equals that total once every
\* transfer has succeeded.
C39_CounterWithinTotal ==
  /\ BdNeverExceeds
  /\ BdAllSucceeded => bd_current = bd_total

\* C40: attach(pid, retries=n) makes at most n attempts and none after a
\* success; it returns only after an attempt that succeeded (session
\* attached to pid, agent loaded) and has then recorded pid; when every
\* attempt ended with a transport or cancellation error it raises the last
\* of them; whenever it raises, the recorded pid is what it was.
C40_AttachRetries ==
  /\ at_attempt <= at_retries
  /\ Len(at_errors) <= at_attempt
  /\ at_pc \in {"record", "returned"} =>
       /\ at_session = at_target
       /\ at_agent
       /\ Len(at_errors) = at_attempt - 1
  /\ at_pc = "returned" => at_pid = at_target
  /\ at_pc = "raised" => at_pid = at_old_pid
  /\ (at_pc \in {"after_loop", "raised"} /\ Len(at_errors) = at_retries
        /\ \A k \in 1..Len(at_errors) : at_errors[k][2] # "other")
       => (at_pc = "raised" => at_raised = at_errors[Len(at_errors)])

====
